---- MODULE Spec2Model ----
(***************************************************************************)
(* Opening-range-breakout day trading bot: the position/risk engine        *)
(* (position_manager.py), the strategy (opening_range_strategy.py) and the *)
(* two session drivers (backtester.py, trading_bot.py).                    *)
(*                                                                         *)
(* Python floats are modelled as exact rationals <<n, d>> with d > 0 in    *)
(* lowest terms; None is <<0, 0>>.  Rounding of IEEE doubles is not        *)
(* modelled.                                                               *)
(***************************************************************************)
EXTENDS Integers, Sequences, FiniteSets, TLC

VARIABLES
    pm,         \* the PositionManager instance (its fields)
    last,       \* the last call made and what it returned or raised
    lossToday,  \* history: a close_trade with pnl < 0 succeeded since the last reset
    strategy,   \* symbol -> OpeningRangeBreakout instance (its opening_range)
    drv,        \* the session driver's position and locals
    market      \* the bar source: the clock and the bars it has produced

vars == <<pm, last, lossToday, strategy, drv, market>>

----------------------------------------------------------------------------
(* Exact arithmetic standing for float arithmetic *)

Abs(x) == IF x < 0 THEN -x ELSE x

RECURSIVE GCD(_, _)
GCD(a, b) == IF b = 0 THEN a ELSE GCD(b, a % b)

Norm(n, d) ==
    LET g == GCD(Abs(n), d) IN <<n \div g, d \div g>>

R(n) == <<n, 1>>
None == <<0, 0>>

RNeg(a) == <<-a[1], a[2]>>

RAdd(a, b) ==
    LET g == GCD(a[2], b[2])
        l == (a[2] \div g) * b[2]
    IN  Norm(a[1] * (l \div a[2]) + b[1] * (l \div b[2]), l)

RSub(a, b) == RAdd(a, RNeg(b))

RMul(a, b) ==
    LET g1 == GCD(Abs(a[1]), b[2])
        g2 == GCD(Abs(b[1]), a[2])
    IN  Norm((a[1] \div g1) * (b[1] \div g2), (a[2] \div g2) * (b[2] \div g1))

\* a / b for b # 0
RDiv(a, b) ==
    IF b[1] > 0 THEN RMul(a, <<b[2], b[1]>>) ELSE RMul(a, <<-b[2], -b[1]>>)

RLt(a, b) == a[1] * b[2] < b[1] * a[2]
RLe(a, b) == a[1] * b[2] <= b[1] * a[2]

RECURSIVE RSum(_)
RSum(s) == IF s = <<>> THEN R(0) ELSE RAdd(s[1], RSum(Tail(s)))

----------------------------------------------------------------------------
(* position_manager.py *)

MAX_TRADES_PER_DAY == 2
MAX_DAILY_LOSS_PCT == <<-2, 25>>      \* -0.08
RISK_PER_TRADE == <<1, 50>>           \* 0.02

\* PositionManager.__init__
PositionManager(starting_capital) ==
    [ starting_capital |-> starting_capital,
      current_capital  |-> starting_capital,
      open_trades      |-> <<>>,
      closed_trades    |-> <<>>,
      trades_today     |-> 0,
      losing_trade_hit |-> FALSE,
      daily_pnl        |-> R(0) ]

\* Trade(...): id stands for the identity of the Python object
Trade(id, symbol, entry_price, quantity, stop_loss, take_profit) ==
    [ id |-> id, symbol |-> symbol, entry_price |-> entry_price,
      quantity |-> quantity, stop_loss |-> stop_loss, take_profit |-> take_profit,
      exit_price |-> None, exit_reason |-> "None", pnl |-> R(0), pnl_pct |-> R(0) ]

\* Trade.close: overwrites the exit fields and pnl, whatever they were
TradeClose(t, exit_price, reason) ==
    [ t EXCEPT !.exit_price = exit_price,
               !.exit_reason = reason,
               !.pnl = RMul(RSub(exit_price, t.entry_price), t.quantity),
               !.pnl_pct = RMul(RDiv(RSub(exit_price, t.entry_price), t.entry_price), R(100)) ]

\* mutant: the losing-trade flag survives the reset
reset_daily_limits_keeps_flag(p) ==
    [ p EXCEPT !.trades_today = 0, !.daily_pnl = R(0) ]

\* mutant: the reset keeps the day's pnl
reset_daily_limits_keeps_pnl(p) ==
    [ p EXCEPT !.trades_today = 0, !.losing_trade_hit = FALSE ]

\* mutant: the reset also puts the capital back to the starting capital
reset_daily_limits_restores_capital(p) ==
    [ p EXCEPT !.trades_today = 0, !.losing_trade_hit = FALSE, !.daily_pnl = R(0),
               !.current_capital = p.starting_capital ]

\* a reset that keeps the date's trade count
reset_daily_limits_keeps_count(p) ==
    [ p EXCEPT !.losing_trade_hit = FALSE, !.daily_pnl = R(0) ]

reset_daily_limits(p) ==
    [ p EXCEPT !.trades_today = 0, !.losing_trade_hit = FALSE, !.daily_pnl = R(0) ]

\* mutant: off-by-one in the max-trades switch
can_open_trade_gt(p) ==
    IF p.trades_today > MAX_TRADES_PER_DAY
    THEN [allowed |-> FALSE, reason |-> "Max 2 trades/day reached"]
    ELSE IF p.losing_trade_hit
    THEN [allowed |-> FALSE, reason |-> "Stopped after losing trade"]
    ELSE IF RLe(RDiv(p.daily_pnl, p.starting_capital), MAX_DAILY_LOSS_PCT)
    THEN [allowed |-> FALSE, reason |-> "Max daily loss (-8%) reached"]
    ELSE [allowed |-> TRUE, reason |-> "OK"]

\* mutant: the losing-trade switch is tested before the max-trades switch
can_open_trade_loss_first(p) ==
    IF p.losing_trade_hit
    THEN [allowed |-> FALSE, reason |-> "Stopped after losing trade"]
    ELSE IF p.trades_today >= MAX_TRADES_PER_DAY
    THEN [allowed |-> FALSE, reason |-> "Max 2 trades/day reached"]
    ELSE IF RLe(RDiv(p.daily_pnl, p.starting_capital), MAX_DAILY_LOSS_PCT)
    THEN [allowed |-> FALSE, reason |-> "Max daily loss (-8%) reached"]
    ELSE [allowed |-> TRUE, reason |-> "OK"]

can_open_trade(p) ==
    IF p.trades_today >= MAX_TRADES_PER_DAY
    THEN [allowed |-> FALSE, reason |-> "Max 2 trades/day reached"]
    ELSE IF p.losing_trade_hit
    THEN [allowed |-> FALSE, reason |-> "Stopped after losing trade"]
    ELSE IF RLe(RDiv(p.daily_pnl, p.starting_capital), MAX_DAILY_LOSS_PCT)
    THEN [allowed |-> FALSE, reason |-> "Max daily loss (-8%) reached"]
    ELSE [allowed |-> TRUE, reason |-> "OK"]

\* mutant: the position is clamped to 80% of the capital (POSITION_SIZE_PCT)
calculate_position_size_clamped(p, entry_price, stop_loss) ==
    LET risk_per_share == RSub(entry_price, stop_loss)
        by_risk == RDiv(RMul(p.current_capital, RISK_PER_TRADE), risk_per_share)
        by_cash == RDiv(RMul(p.current_capital, <<4, 5>>), entry_price)
    IN  IF RLe(risk_per_share, R(0))
        THEN R(0)
        ELSE IF RLt(by_cash, by_risk) THEN by_cash ELSE by_risk

calculate_position_size(p, entry_price, stop_loss) ==
    LET risk_per_share == RSub(entry_price, stop_loss) IN
    IF RLe(risk_per_share, R(0))
    THEN R(0)
    ELSE RDiv(RMul(p.current_capital, RISK_PER_TRADE), risk_per_share)

\* the Trade objects the engine has created, in creation order of their ids
NextId(p) == Len(p.open_trades) + Len(p.closed_trades) + 1

\* mutant: the entry pays for the shares out of current_capital
open_trade_deducts(p, symbol, entry_price, stop_loss, take_profit) ==
    LET can == can_open_trade(p)
        position_size == calculate_position_size(p, entry_price, stop_loss)
        trade == Trade(NextId(p), symbol, entry_price, position_size, stop_loss, take_profit)
    IN  IF ~can.allowed
        THEN [pm |-> p, raised |-> "ValueError: Cannot open trade: " \o can.reason, id |-> 0]
        ELSE IF RLe(position_size, R(0))
        THEN [pm |-> p, raised |-> "ValueError: Position size <= 0", id |-> 0]
        ELSE [pm |-> [p EXCEPT !.open_trades = Append(@, trade),
                               !.trades_today = @ + 1,
                               !.current_capital = RSub(@, RMul(position_size, entry_price))],
              raised |-> "",
              id |-> trade.id]

\* mutant: the attempt is counted before it is admitted
open_trade_counts_first(p, symbol, entry_price, stop_loss, take_profit) ==
    LET can == can_open_trade(p)
        position_size == calculate_position_size(p, entry_price, stop_loss)
        trade == Trade(NextId(p), symbol, entry_price, position_size, stop_loss, take_profit)
        counted == [p EXCEPT !.trades_today = @ + 1]
    IN  IF ~can.allowed
        THEN [pm |-> counted, raised |-> "ValueError: Cannot open trade: " \o can.reason,
              id |-> 0]
        ELSE IF RLe(position_size, R(0))
        THEN [pm |-> counted, raised |-> "ValueError: Position size <= 0", id |-> 0]
        ELSE [pm |-> [counted EXCEPT !.open_trades = Append(@, trade)],
              raised |-> "",
              id |-> trade.id]

\* open_trade: [pm, raised, id of the Trade returned]
open_trade(p, symbol, entry_price, stop_loss, take_profit) ==
    LET can == can_open_trade(p)
        position_size == calculate_position_size(p, entry_price, stop_loss)
        trade == Trade(NextId(p), symbol, entry_price, position_size, stop_loss, take_profit)
    IN  IF ~can.allowed
        THEN [pm |-> p, raised |-> "ValueError: Cannot open trade: " \o can.reason, id |-> 0]
        ELSE IF RLe(position_size, R(0))
        THEN [pm |-> p, raised |-> "ValueError: Position size <= 0", id |-> 0]
        ELSE [pm |-> [p EXCEPT !.open_trades = Append(@, trade),
                               !.trades_today = @ + 1],
              raised |-> "",
              id |-> trade.id]

\* every Trade object reachable from the engine with identity id, after Trade.close
CloseIn(list, id, exit_price, reason) ==
    [i \in 1..Len(list) |->
        IF list[i].id = id THEN TradeClose(list[i], exit_price, reason) ELSE list[i]]

RemoveId(list, id) == SelectSeq(list, LAMBDA t : t.id # id)

HasId(list, id) == \E i \in 1..Len(list) : list[i].id = id

GetId(list, id) == list[CHOOSE i \in 1..Len(list) : list[i].id = id]

\* mutant: the kill switch looks at the day's pnl, not at the trade's
Settle_daily_flag(p, trade) ==
    [ pm |-> [p EXCEPT !.open_trades = RemoveId(@, trade.id),
                       !.closed_trades = Append(@, trade),
                       !.daily_pnl = RAdd(@, trade.pnl),
                       !.current_capital = RAdd(@, trade.pnl),
                       !.losing_trade_hit =
                            IF RLt(RAdd(p.daily_pnl, trade.pnl), R(0)) THEN TRUE ELSE @],
      raised |-> "" ]

\* mutant: the closed trade is not removed from open_trades
Settle_keeps_open(p, trade) ==
    [ pm |-> [p EXCEPT !.closed_trades = Append(@, trade),
                       !.daily_pnl = RAdd(@, trade.pnl),
                       !.current_capital = RAdd(@, trade.pnl),
                       !.losing_trade_hit = IF RLt(trade.pnl, R(0)) THEN TRUE ELSE @],
      raised |-> "" ]

\* mutant: a break-even close counts as a losing trade
Settle_flat_is_loss(p, trade) ==
    [ pm |-> [p EXCEPT !.open_trades = RemoveId(@, trade.id),
                       !.closed_trades = Append(@, trade),
                       !.daily_pnl = RAdd(@, trade.pnl),
                       !.current_capital = RAdd(@, trade.pnl),
                       !.losing_trade_hit = IF RLe(trade.pnl, R(0)) THEN TRUE ELSE @],
      raised |-> "" ]

\* close_trade after trade.close(): the bookkeeping of lines 149-158
Settle(p, trade) ==
    [ pm |-> [p EXCEPT !.open_trades = RemoveId(@, trade.id),
                       !.closed_trades = Append(@, trade),
                       !.daily_pnl = RAdd(@, trade.pnl),
                       !.current_capital = RAdd(@, trade.pnl),
                       !.losing_trade_hit = IF RLt(trade.pnl, R(0)) THEN TRUE ELSE @],
      raised |-> "" ]

\* mutant: the removal is guarded (if trade in open_trades) and the bookkeeping
\* runs all the same
close_trade_silent(p, id, exit_price, reason) ==
    IF HasId(p.open_trades, id)
    THEN Settle(p, TradeClose(GetId(p.open_trades, id), exit_price, reason))
    ELSE IF HasId(p.closed_trades, id)
    THEN Settle([p EXCEPT !.closed_trades = CloseIn(@, id, exit_price, reason)],
                TradeClose(GetId(p.closed_trades, id), exit_price, reason))
    ELSE [pm |-> p, raised |-> ""]

\* close_trade(trade, exit_price, reason): [pm, raised]
\* trade.close() runs first and mutates the object wherever it is referenced;
\* list.remove then raises ValueError when the trade is not in open_trades.
close_trade(p, id, exit_price, reason) ==
    IF HasId(p.open_trades, id)
    THEN Settle(p, TradeClose(GetId(p.open_trades, id), exit_price, reason))
    ELSE [ pm |-> [p EXCEPT !.closed_trades = CloseIn(@, id, exit_price, reason)],
           raised |-> "ValueError: list.remove(x): x not in list" ]

\* mutant: the lookup never finds the open trade
get_open_position_none(p, symbol) == 0

\* get_open_position: the id of the first open trade of the symbol, 0 for None
get_open_position(p, symbol) ==
    LET hits == {i \in 1..Len(p.open_trades) : p.open_trades[i].symbol = symbol}
    IN  IF hits = {} THEN 0
        ELSE p.open_trades[CHOOSE i \in hits : \A j \in hits : i <= j].id

----------------------------------------------------------------------------
(* opening_range_strategy.py *)

MARKET_OPEN_EST == <<19, 2>>              \* 9.5
TRADING_WINDOW_START == <<9583, 1000>>    \* 9.583
TRADING_WINDOW_END == <<21, 2>>           \* 10.5
VOLUME_THRESHOLD == <<3, 2>>              \* check_breakout's default 1.5

\* A timestamp is [day, minute]: a UTC calendar day and the minute of that day.
\* ZoneInfo("America/New_York"): UTC-5, and UTC-4 on the days of EdtDays.
EdtDays == {2}
UtcOffset(day) == IF day \in EdtDays THEN -240 ELSE -300

\* dt.astimezone(est_tz): the local minute of the day
LocalMinute(dt) == (dt.minute + UtcOffset(dt.day)) % 1440

get_est_hour(dt) ==
    RAdd(R(LocalMinute(dt) \div 60), RDiv(R(LocalMinute(dt) % 60), R(60)))

Bar(d, m, o, h, l, c, v) ==
    [ time |-> [day |-> d, minute |-> m], open |-> R(o), high |-> R(h),
      low |-> R(l), close |-> R(c), volume |-> R(v) ]

NoRange == [high |-> None, low |-> None, range_width |-> None, avg_volume |-> None]

\* OpeningRangeBreakout.__init__
OpeningRangeBreakout == [opening_range |-> NoRange]

RECURSIVE RMax(_)
RMax(s) == IF Len(s) = 1 THEN s[1]
           ELSE IF RLt(RMax(Tail(s)), s[1]) THEN s[1] ELSE RMax(Tail(s))

RECURSIVE RMin(_)
RMin(s) == IF Len(s) = 1 THEN s[1]
           ELSE IF RLt(s[1], RMin(Tail(s))) THEN s[1] ELSE RMin(Tail(s))

Column(df, col) == [i \in 1..Len(df) |-> df[i][col]]

InOpeningWindow(bar) ==
    /\ RLe(MARKET_OPEN_EST, get_est_hour(bar.time))
    /\ RLt(get_est_hour(bar.time), TRADING_WINDOW_START)

\* calculate_opening_range: the instance after the call (it sets the range
\* whenever df holds an opening-window bar, also when a range is already set)
calculate_opening_range(self, df) ==
    LET opening_bars == SelectSeq(df, InOpeningWindow) IN
    IF opening_bars = <<>>
    THEN self
    ELSE [self EXCEPT !.opening_range =
            [ high |-> RMax(Column(opening_bars, "high")),
              low |-> RMin(Column(opening_bars, "low")),
              range_width |-> RSub(RMax(Column(opening_bars, "high")),
                                   RMin(Column(opening_bars, "low"))),
              avg_volume |-> RDiv(RSum(Column(opening_bars, "volume")),
                                  R(Len(opening_bars))) ]]

\* mutant: the fill is taken at the bar's high
check_breakout_fill_high(self, current_bar, volume_threshold) ==
    IF self.opening_range = NoRange
    THEN [signal |-> "NO_SETUP", entry_price |-> None]
    ELSE IF ~(/\ RLe(TRADING_WINDOW_START, get_est_hour(current_bar.time))
              /\ RLe(get_est_hour(current_bar.time), TRADING_WINDOW_END))
    THEN [signal |-> "NO_SETUP", entry_price |-> None]
    ELSE IF RLt(current_bar.volume, RMul(self.opening_range.avg_volume, volume_threshold))
    THEN [signal |-> "NO_SETUP", entry_price |-> None]
    ELSE IF RLt(self.opening_range.high, current_bar.high)
    THEN [signal |-> "LONG_BREAKOUT", entry_price |-> current_bar.high]
    ELSE [signal |-> "NO_SETUP", entry_price |-> None]

check_breakout(self, current_bar, volume_threshold) ==
    IF self.opening_range = NoRange
    THEN [signal |-> "NO_SETUP", entry_price |-> None]
    ELSE IF ~(/\ RLe(TRADING_WINDOW_START, get_est_hour(current_bar.time))
              /\ RLe(get_est_hour(current_bar.time), TRADING_WINDOW_END))
    THEN [signal |-> "NO_SETUP", entry_price |-> None]
    ELSE IF RLt(current_bar.volume, RMul(self.opening_range.avg_volume, volume_threshold))
    THEN [signal |-> "NO_SETUP", entry_price |-> None]
    ELSE IF RLt(self.opening_range.high, current_bar.high)
    THEN [signal |-> "LONG_BREAKOUT", entry_price |-> current_bar.close]
    ELSE [signal |-> "NO_SETUP", entry_price |-> None]

\* calculate_stops_and_targets, for an instance whose range is set
\* mutant: the conservative target is the aggressive one
calculate_stops_and_targets_aggressive(self, entry_price) ==
    [ stop_loss |-> self.opening_range.low,
      take_profit_aggressive |-> RMul(entry_price, <<28, 25>>),
      take_profit_conservative |-> RMul(entry_price, <<28, 25>>),
      trailing_stop_start |-> RMul(entry_price, <<53, 50>>),
      risk_per_trade |-> RSub(entry_price, self.opening_range.low) ]

calculate_stops_and_targets(self, entry_price) ==
    [ stop_loss |-> self.opening_range.low,
      take_profit_aggressive |-> RMul(entry_price, <<28, 25>>),
      take_profit_conservative |-> RMul(entry_price, <<27, 25>>),
      trailing_stop_start |-> RMul(entry_price, <<53, 50>>),
      risk_per_trade |-> RSub(entry_price, self.opening_range.low) ]

\* mutant: the target is tested before the stop
should_exit_target_first(current_price, stop_loss, take_profit, trailing_stop) ==
    IF RLe(take_profit, current_price)
    THEN [signal |-> "EXIT_PROFIT", exit_price |-> take_profit]
    ELSE IF RLe(current_price, stop_loss)
    THEN [signal |-> "EXIT_LOSS", exit_price |-> stop_loss]
    ELSE IF trailing_stop # None /\ RLe(trailing_stop, current_price)
    THEN [signal |-> "EXIT_PROFIT", exit_price |-> current_price]
    ELSE [signal |-> "HOLD", exit_price |-> None]

\* mutant: a stop-loss exit is filled at the current price
should_exit_at_market(current_price, stop_loss, take_profit, trailing_stop) ==
    IF RLe(current_price, stop_loss)
    THEN [signal |-> "EXIT_LOSS", exit_price |-> current_price]
    ELSE IF RLe(take_profit, current_price)
    THEN [signal |-> "EXIT_PROFIT", exit_price |-> take_profit]
    ELSE IF trailing_stop # None /\ RLe(trailing_stop, current_price)
    THEN [signal |-> "EXIT_PROFIT", exit_price |-> current_price]
    ELSE [signal |-> "HOLD", exit_price |-> None]

should_exit(current_price, stop_loss, take_profit, trailing_stop) ==
    IF RLe(current_price, stop_loss)
    THEN [signal |-> "EXIT_LOSS", exit_price |-> stop_loss]
    ELSE IF RLe(take_profit, current_price)
    THEN [signal |-> "EXIT_PROFIT", exit_price |-> take_profit]
    ELSE IF trailing_stop # None /\ RLe(trailing_stop, current_price)
    THEN [signal |-> "EXIT_PROFIT", exit_price |-> current_price]
    ELSE [signal |-> "HOLD", exit_price |-> None]

----------------------------------------------------------------------------
(* Bounds and inputs of the engine specification *)

MaxTrades == 3      \* Trade objects created over the life of one engine

STARTING_CAPITAL == R(40)
Symbols == {"AAPL"}
EntryPrices == {R(102)}
StopPrices == {<<1019, 10>>, R(102)}            \* 101.90 and a stop at the entry
TargetPrices == {<<2754, 25>>}                  \* 102 * 1.08
ExitPrices == {R(97), R(107)}                  \* -5% and +5% on the entry
SizeStops == StopPrices \cup {R(100), R(103)}   \* stops tried by the sizing query
Reasons == {"Stop loss"}

NoCall == [op |-> "none"]

NoStrategy == <<>>
NoDriver == [mode |-> "engine"]
NoMarket == [mode |-> "none"]

InitEngine ==
    /\ pm = PositionManager(STARTING_CAPITAL)
    /\ last = NoCall
    /\ lossToday = FALSE
    /\ strategy = NoStrategy
    /\ drv = NoDriver
    /\ market = NoMarket

ResetDailyLimits ==
    /\ pm' = reset_daily_limits(pm)
    /\ last' = [op |-> "reset_daily_limits"]
    /\ lossToday' = FALSE
    /\ UNCHANGED <<strategy, drv, market>>

CanOpenTrade ==
    /\ \E r \in {can_open_trade(pm)} :
          last' = [op |-> "can_open_trade", allowed |-> r.allowed, reason |-> r.reason,
                   after_reset |-> (last.op = "reset_daily_limits")]
    /\ UNCHANGED <<pm, lossToday, strategy, drv, market>>

CalculatePositionSize ==
    \E entry_price \in EntryPrices, stop_loss \in SizeStops :
        /\ last' = [op |-> "calculate_position_size", entry_price |-> entry_price,
                    stop_loss |-> stop_loss,
                    size |-> calculate_position_size(pm, entry_price, stop_loss)]
        /\ UNCHANGED <<pm, lossToday, strategy, drv, market>>

OpenTrade ==
    \E symbol \in Symbols, entry_price \in EntryPrices,
       stop_loss \in StopPrices, take_profit \in TargetPrices :
        \E r \in {open_trade(pm, symbol, entry_price, stop_loss, take_profit)} :
        /\ (r.raised = "" => NextId(pm) <= MaxTrades)
        /\ pm' = r.pm
        /\ last' = [op |-> "open_trade", raised |-> r.raised]
        /\ UNCHANGED <<lossToday, strategy, drv, market>>

\* the caller passes any Trade the engine has handed out, open or already
\* closed, or a Trade the engine never opened (id 0)
CloseTrade ==
    \E id \in 0..(NextId(pm) - 1), exit_price \in ExitPrices, reason \in Reasons :
        \E r \in {close_trade(pm, id, exit_price, reason)} :
        /\ pm' = r.pm
        /\ last' = [op |-> "close_trade", raised |-> r.raised]
        /\ lossToday' = (lossToday \/
                           (r.raised = "" /\ HasId(pm.open_trades, id) /\
                            RLt(RMul(RSub(exit_price, GetId(pm.open_trades, id).entry_price),
                                     GetId(pm.open_trades, id).quantity), R(0))))
        /\ UNCHANGED <<strategy, drv, market>>

NextEngine ==
    \/ ResetDailyLimits
    \/ CanOpenTrade
    \/ OpenTrade
    \/ CloseTrade

SpecEngine == InitEngine /\ [][NextEngine]_vars

\* one trading date of the engine with the sizing query
NextSizing ==
    \/ CalculatePositionSize
    \/ OpenTrade
    \/ CloseTrade

SpecSizing == InitEngine /\ [][NextSizing]_vars

\* the caller closes an open trade at its own entry price (a break-even exit)
CloseAtEntry ==
    \E i \in 1..Len(pm.open_trades), reason \in Reasons :
        \E r \in {close_trade(pm, pm.open_trades[i].id,
                              pm.open_trades[i].entry_price, reason)} :
        /\ pm' = r.pm
        /\ last' = [op |-> "close_trade", raised |-> r.raised]
        /\ UNCHANGED <<lossToday, strategy, drv, market>>

\* one trading date of the engine with losing, winning and break-even exits
NextSettle ==
    \/ OpenTrade
    \/ CloseTrade
    \/ CloseAtEntry

SpecSettle == InitEngine /\ [][NextSettle]_vars

----------------------------------------------------------------------------
(* Claims on the engine *)

Pnls(list) == [i \in 1..Len(list) |-> list[i].pnl]

Ledger == RAdd(pm.starting_capital, RSum(Pnls(pm.closed_trades)))

DailyLossTripped == RLe(RDiv(pm.daily_pnl, pm.starting_capital), MAX_DAILY_LOSS_PCT)

\* C1: after each close_trade call, accepted or rejected, current_capital
\* equals starting_capital plus the sum of pnl over closed_trades.
C1_LedgerAfterEveryClose ==
    last.op = "close_trade" => pm.current_capital = Ledger

\* C3: once a close_trade with negative pnl has succeeded, until the next
\* reset_daily_limits every can_open_trade denies (with the losing-trade
\* reason while trades_today < MAX_TRADES_PER_DAY) and every open_trade raises.
C3_NoEntryAfterLoss ==
    lossToday =>
        /\ last.op = "can_open_trade" =>
              /\ last.allowed = FALSE
              /\ pm.trades_today < MAX_TRADES_PER_DAY =>
                    last.reason = "Stopped after losing trade"
        /\ last.op = "open_trade" => last.raised # ""

C3_Witness ==
    /\ lossToday
    /\ last.op = "can_open_trade"
    /\ pm.trades_today < MAX_TRADES_PER_DAY
    /\ last.reason = "Stopped after losing trade"
    /\ ~DailyLossTripped

\* C4: trades_today never exceeds MAX_TRADES_PER_DAY, so at most that many
\* open_trade calls succeed between two resets.
C4_MaxTradesPerDay ==
    /\ pm.trades_today <= MAX_TRADES_PER_DAY
    /\ (last.op = "open_trade" /\ last.raised = "") => pm.trades_today >= 1

C4_Witness ==
    /\ pm.trades_today = MAX_TRADES_PER_DAY
    /\ NextId(pm) <= MaxTrades
    /\ ~pm.losing_trade_hit
    /\ last.op = "open_trade"
    /\ last.raised = "ValueError: Cannot open trade: Max 2 trades/day reached"

\* C5: a can_open_trade made right after reset_daily_limits allows, whatever
\* the previous day left behind.
C5_AllowedAfterReset ==
    (last.op = "can_open_trade" /\ last.after_reset) =>
        /\ last.allowed = TRUE
        /\ last.reason = "OK"

C5_Witness ==
    /\ last.op = "can_open_trade"
    /\ last.after_reset
    /\ last.allowed
    /\ Len(pm.closed_trades) >= 2
    /\ RLt(pm.current_capital, pm.starting_capital)

\* C6: can_open_trade allows iff no kill switch is tripped, and the reason
\* reported is that of the first tripped switch in the order max-trades,
\* losing-trade, daily-loss.
C6_KillSwitchOrder ==
    last.op = "can_open_trade" =>
        LET t1 == pm.trades_today >= MAX_TRADES_PER_DAY
            t2 == pm.losing_trade_hit
            t3 == DailyLossTripped
        IN  /\ last.allowed <=> ~(t1 \/ t2 \/ t3)
            /\ t1 => last.reason = "Max 2 trades/day reached"
            /\ (~t1 /\ t2) => last.reason = "Stopped after losing trade"
            /\ (~t1 /\ ~t2 /\ t3) => last.reason = "Max daily loss (-8%) reached"
            /\ ~(t1 \/ t2 \/ t3) => last.reason = "OK"

C6_Witness ==
    /\ last.op = "can_open_trade"
    /\ pm.trades_today >= MAX_TRADES_PER_DAY
    /\ pm.losing_trade_hit
    /\ DailyLossTripped
    /\ last.reason = "Max 2 trades/day reached"

\* the ids of the Trades of a list, in order
Ids(list) == [i \in 1..Len(list) |-> list[i].id]

\* C11: a successful open_trade appends exactly one new Trade to open_trades,
\* adds one to trades_today and leaves current_capital, daily_pnl,
\* losing_trade_hit and closed_trades as they were.
C11_OpenFrame ==
    [][(last'.op = "open_trade" /\ last'.raised = "") =>
          /\ Len(pm'.open_trades) = Len(pm.open_trades) + 1
          /\ SubSeq(pm'.open_trades, 1, Len(pm.open_trades)) = pm.open_trades
          /\ ~HasId(pm.open_trades, pm'.open_trades[Len(pm'.open_trades)].id)
          /\ ~HasId(pm.closed_trades, pm'.open_trades[Len(pm'.open_trades)].id)
          /\ pm'.trades_today = pm.trades_today + 1
          /\ pm'.current_capital = pm.current_capital
          /\ pm'.daily_pnl = pm.daily_pnl
          /\ pm'.losing_trade_hit = pm.losing_trade_hit
          /\ pm'.closed_trades = pm.closed_trades]_vars

\* a trade was opened on a day that already has a closed trade and a changed
\* capital
C11_Witness ==
    /\ last.op = "open_trade"
    /\ last.raised = ""
    /\ Len(pm.open_trades) = 1
    /\ Len(pm.closed_trades) = 1
    /\ pm.trades_today = 2
    /\ pm.current_capital # pm.starting_capital

\* the Trade a successful open_trade appended in the step
Opened == pm'.open_trades[Len(pm'.open_trades)]

\* C12: open_trade raises whenever can_open_trade denies or the computed
\* quantity is <= 0 (it succeeds only on an admitted entry of positive size),
\* and an open_trade that raised left the engine as it was.
C12_OpenRejected ==
    [][last'.op = "open_trade" =>
          /\ ~can_open_trade(pm).allowed => last'.raised # ""
          /\ last'.raised = "" =>
                /\ can_open_trade(pm).allowed
                /\ RLt(R(0), calculate_position_size(pm, Opened.entry_price,
                                                     Opened.stop_loss))
          /\ last'.raised # "" => pm' = pm]_vars

\* after a reset, open_trade was admitted by the kill switches and refused for
\* its size, on an engine without capital that holds an open trade
C12_Witness ==
    /\ last.op = "open_trade"
    /\ last.raised = "ValueError: Position size <= 0"
    /\ RLe(pm.current_capital, R(0))
    /\ Len(pm.open_trades) = 1
    /\ pm.trades_today = 0

\* C13: close_trade succeeds only by moving a trade of open_trades to
\* closed_trades; on any other trade it raises, and the call that raised
\* changed neither current_capital, daily_pnl, losing_trade_hit nor which
\* trades are in open_trades and in closed_trades.
C13_CloseRejected ==
    [][last'.op = "close_trade" =>
          /\ last'.raised = "" =>
                \E i \in 1..Len(pm.open_trades) :
                    /\ Ids(pm'.open_trades) = Ids(RemoveId(pm.open_trades, pm.open_trades[i].id))
                    /\ Ids(pm'.closed_trades) =
                          Append(Ids(pm.closed_trades), pm.open_trades[i].id)
          /\ last'.raised # "" =>
                /\ pm'.current_capital = pm.current_capital
                /\ pm'.daily_pnl = pm.daily_pnl
                /\ pm'.losing_trade_hit = pm.losing_trade_hit
                /\ Ids(pm'.open_trades) = Ids(pm.open_trades)
                /\ Ids(pm'.closed_trades) = Ids(pm.closed_trades)]_vars

\* a close_trade raised on an engine with one closed, rewritten trade (its
\* exit no longer matches the capital) and one open trade
C13_Witness ==
    /\ last.op = "close_trade"
    /\ last.raised # ""
    /\ Len(pm.closed_trades) = 1
    /\ Len(pm.open_trades) = 1
    /\ pm.current_capital # RAdd(pm.starting_capital, pm.closed_trades[1].pnl)

\* C14: a closed Trade is never reopened and its exit_price, exit_reason, pnl
\* and pnl_pct are never modified by a later operation, a rejected second
\* close_trade included.
C14_ClosedOnce ==
    [][\A i \in 1..Len(pm.closed_trades) :
          /\ ~HasId(pm'.open_trades, pm.closed_trades[i].id)
          /\ HasId(pm'.closed_trades, pm.closed_trades[i].id)
          /\ GetId(pm'.closed_trades, pm.closed_trades[i].id) = pm.closed_trades[i]]_vars

\* the Trade a successful close_trade appended to closed_trades in the step
Closed == pm'.closed_trades[Len(pm'.closed_trades)]

\* C28: a successful close_trade gives the trade the pnl (exit_price -
\* entry_price) x quantity, sets losing_trade_hit exactly when that pnl is < 0
\* (a break-even or winning close leaves the flag as it was, no close clears
\* it) and adds the same pnl to daily_pnl and to current_capital.
C28_LossFlag ==
    [][(last'.op = "close_trade" /\ last'.raised = "") =>
          /\ HasId(pm.open_trades, Closed.id)
          /\ Closed.pnl =
                RMul(RSub(Closed.exit_price, GetId(pm.open_trades, Closed.id).entry_price),
                     GetId(pm.open_trades, Closed.id).quantity)
          /\ pm'.losing_trade_hit = (pm.losing_trade_hit \/ RLt(Closed.pnl, R(0)))
          /\ pm'.daily_pnl = RAdd(pm.daily_pnl, Closed.pnl)
          /\ pm'.current_capital = RAdd(pm.current_capital, Closed.pnl)]_vars

\* a break-even close after a winning one, the flag still down
C28_Witness ==
    /\ last.op = "close_trade"
    /\ last.raised = ""
    /\ Len(pm.closed_trades) = 2
    /\ RLt(R(0), pm.closed_trades[1].pnl)
    /\ pm.closed_trades[2].pnl = R(0)
    /\ pm.closed_trades[2].exit_price = pm.closed_trades[2].entry_price
    /\ ~pm.losing_trade_hit
    /\ RLt(R(0), pm.daily_pnl)

\* C34: in every state the engine's operations reach, daily_pnl < 0 implies
\* losing_trade_hit; so whenever the daily-loss condition holds the
\* losing-trade switch, tested before it, is tripped, and can_open_trade
\* never gives the max-daily-loss reason.
C34_DailyLossImpliesFlag ==
    /\ RLt(pm.daily_pnl, R(0)) => pm.losing_trade_hit
    /\ DailyLossTripped => pm.losing_trade_hit
    /\ last.op = "can_open_trade" => last.reason # "Max daily loss (-8%) reached"

\* can_open_trade is asked with the daily loss beyond the threshold and the
\* trade count below its maximum: the reason is the losing trade
C34_Witness ==
    /\ last.op = "can_open_trade"
    /\ DailyLossTripped
    /\ pm.trades_today < MAX_TRADES_PER_DAY
    /\ last.allowed = FALSE
    /\ last.reason = "Stopped after losing trade"

\* the ids of the Trades held in either list
AllIds == Ids(pm.open_trades) \o Ids(pm.closed_trades)

\* C38: open_trades and closed_trades are disjoint and every Trade the
\* engine created is in exactly one of them; a Trade in open_trades has no
\* exit_price, a Trade in closed_trades has one; trades_today counts the
\* successful open_trade calls since the last reset_daily_limits: a successful
\* open_trade adds one, a reset makes it zero, nothing else changes it.
C38_ListsAndCount ==
    /\ [](/\ \A i, j \in 1..Len(AllIds) : AllIds[i] = AllIds[j] => i = j
          /\ \A id \in 1..(NextId(pm) - 1) : \E i \in 1..Len(AllIds) : AllIds[i] = id
          /\ \A i \in 1..Len(pm.open_trades) : pm.open_trades[i].exit_price = None
          /\ \A i \in 1..Len(pm.closed_trades) : pm.closed_trades[i].exit_price # None)
    /\ [][/\ (last'.op = "open_trade" /\ last'.raised = "")
                => /\ pm'.trades_today = pm.trades_today + 1
                   /\ Len(pm'.open_trades) = Len(pm.open_trades) + 1
          /\ last'.op = "reset_daily_limits" => pm'.trades_today = 0
          /\ ~(last'.op = "open_trade" /\ last'.raised = "")
                /\ last'.op # "reset_daily_limits"
                => /\ pm'.trades_today = pm.trades_today
                   /\ Len(pm'.open_trades) + Len(pm'.closed_trades)
                        = Len(pm.open_trades) + Len(pm.closed_trades)]_vars

\* one trade of the day before is closed, the reset has run and one trade has
\* been opened since: the count is one with two Trades created
C38_Witness ==
    /\ last.op = "open_trade"
    /\ last.raised = ""
    /\ pm.trades_today = 1
    /\ Len(pm.closed_trades) = 1
    /\ Len(pm.open_trades) = 1
    /\ pm.open_trades[1].exit_price = None
    /\ pm.closed_trades[1].exit_price # None

\* C39: reset_daily_limits zeroes trades_today, losing_trade_hit and
\* daily_pnl and changes nothing else: current_capital, starting_capital,
\* open_trades and closed_trades are what they were, so the capital carries
\* over to the next trading date.
C39_ResetFrame ==
    [][last'.op = "reset_daily_limits" =>
          /\ pm'.trades_today = 0
          /\ pm'.losing_trade_hit = FALSE
          /\ pm'.daily_pnl = R(0)
          /\ pm'.current_capital = pm.current_capital
          /\ pm'.starting_capital = pm.starting_capital
          /\ pm'.open_trades = pm.open_trades
          /\ pm'.closed_trades = pm.closed_trades]_vars

\* a reset after a losing day with a trade still open: the capital stays
\* below the starting capital
C39_Witness ==
    /\ last.op = "reset_daily_limits"
    /\ RLt(pm.current_capital, pm.starting_capital)
    /\ Len(pm.closed_trades) >= 1
    /\ Len(pm.open_trades) >= 1
    /\ pm.trades_today = 0
    /\ pm.daily_pnl = R(0)

----------------------------------------------------------------------------
(* The strategy on its own: one instance, called with bars and prices *)

\* frames handed to calculate_opening_range (day 1 is on UTC-5: 870 is 09:30)
Frames ==
    { <<>>,
      << Bar(1, 870, 100, 101, 100, 101, 10) >>,
      << Bar(1, 870, 100, 101, 100, 101, 10), Bar(1, 871, 101, 101, 100, 100, 15) >>,
      << Bar(1, 875, 101, 102, 101, 102, 20) >>,
      << Bar(1, 870, 101, 101, 101, 101, 10) >> }     \* a flat opening bar

\* bars handed to check_breakout: 09:34, 09:35, 10:30, 10:31 on UTC-5,
\* and 09:35, 10:35 on UTC-4
BarTimes ==
    { [day |-> 1, minute |-> 874], [day |-> 1, minute |-> 875],
      [day |-> 1, minute |-> 930], [day |-> 1, minute |-> 931],
      [day |-> 2, minute |-> 815], [day |-> 2, minute |-> 875] }
BarVolumes == {14, 15, 18, 19}
BarHighClose == { <<101, 101>>, <<102, 100>>, <<102, 102>> }

ExitCurrent == {R(99), R(100), R(101), R(102), R(103)}
ExitStops == {R(100), R(102)}
ExitTargets == {R(101), R(103)}
ExitTrailing == {None, R(101), R(102)}

InitStrategy ==
    /\ pm = PositionManager(STARTING_CAPITAL)
    /\ last = NoCall
    /\ lossToday = FALSE
    /\ strategy = [s \in Symbols |-> OpeningRangeBreakout]
    /\ drv = [mode |-> "strategy"]
    /\ market = NoMarket

CalculateOpeningRange ==
    \E s \in Symbols, df \in Frames :
        /\ strategy' = [strategy EXCEPT ![s] = calculate_opening_range(@, df)]
        /\ last' = [op |-> "calculate_opening_range"]
        /\ UNCHANGED <<pm, lossToday, drv, market>>

CheckBreakout ==
    \E s \in Symbols, t \in BarTimes, v \in BarVolumes, hc \in BarHighClose :
        \E bar \in {Bar(t.day, t.minute, 101, hc[1], 100, hc[2], v)} :
        \E r \in {check_breakout(strategy[s], bar, VOLUME_THRESHOLD)} :
            /\ last' = [op |-> "check_breakout", symbol |-> s, bar |-> bar,
                        signal |-> r.signal, entry_price |-> r.entry_price]
            /\ UNCHANGED <<pm, lossToday, strategy, drv, market>>

ShouldExit ==
    \E current_price \in ExitCurrent, stop_loss \in ExitStops,
       take_profit \in ExitTargets, trailing_stop \in ExitTrailing :
        \E r \in {should_exit(current_price, stop_loss, take_profit, trailing_stop)} :
            /\ last' = [op |-> "should_exit", current_price |-> current_price,
                        stop_loss |-> stop_loss, take_profit |-> take_profit,
                        trailing_stop |-> trailing_stop,
                        signal |-> r.signal, exit_price |-> r.exit_price]
            /\ UNCHANGED <<pm, lossToday, strategy, drv, market>>

NextStrategy ==
    \/ CalculateOpeningRange
    \/ CheckBreakout
    \/ ShouldExit

SpecStrategy == InitStrategy /\ [][NextStrategy]_vars

----------------------------------------------------------------------------
(* Claims on the strategy *)

\* C7: when current_price <= stop_loss and current_price >= take_profit hold
\* together, should_exit returns EXIT_LOSS, never EXIT_PROFIT.
C7_StopWinsTie ==
    (/\ last.op = "should_exit"
     /\ RLe(last.current_price, last.stop_loss)
     /\ RLe(last.take_profit, last.current_price)) =>
        last.signal = "EXIT_LOSS"

C7_Witness ==
    /\ last.op = "should_exit"
    /\ RLe(last.current_price, last.stop_loss)
    /\ RLe(last.take_profit, last.current_price)
    /\ last.signal = "EXIT_LOSS"

\* C8: should_exit returns EXIT_LOSS at exactly stop_loss when the price is at
\* or below the stop; otherwise EXIT_PROFIT at exactly take_profit when the
\* price is at or above the target; otherwise EXIT_PROFIT at the current price
\* when a trailing stop is given and the price is at or above it; otherwise
\* HOLD with no exit price.
C8_ExitPriority ==
    last.op = "should_exit" =>
        LET stop == RLe(last.current_price, last.stop_loss)
            target == RLe(last.take_profit, last.current_price)
            trail == /\ last.trailing_stop # None
                     /\ RLe(last.trailing_stop, last.current_price)
        IN  /\ stop => (last.signal = "EXIT_LOSS" /\ last.exit_price = last.stop_loss)
            /\ (~stop /\ target) =>
                  (last.signal = "EXIT_PROFIT" /\ last.exit_price = last.take_profit)
            /\ (~stop /\ ~target /\ trail) =>
                  (last.signal = "EXIT_PROFIT" /\ last.exit_price = last.current_price)
            /\ (~stop /\ ~target /\ ~trail) =>
                  (last.signal = "HOLD" /\ last.exit_price = None)

C8_Witness ==
    /\ last.op = "should_exit"
    /\ RLt(last.current_price, last.stop_loss)
    /\ last.trailing_stop # None
    /\ RLe(last.trailing_stop, last.current_price)
    /\ last.signal = "EXIT_LOSS"
    /\ last.exit_price = last.stop_loss
    /\ last.exit_price # last.current_price

\* C9: check_breakout returns LONG_BREAKOUT iff the range is set, the bar's
\* New York time is within 09:35..10:30, its volume is at least the multiplier
\* times the range's average volume and its high is above the range high; the
\* entry price is then the bar's close; otherwise NO_SETUP without entry price.
C9_Breakout ==
    last.op = "check_breakout" =>
        LET range == strategy[last.symbol].opening_range
            bar == last.bar
            setup == /\ range # NoRange
                     /\ LocalMinute(bar.time) >= 9 * 60 + 35
                     /\ LocalMinute(bar.time) <= 10 * 60 + 30
                     /\ RLe(RMul(VOLUME_THRESHOLD, range.avg_volume), bar.volume)
                     /\ RLt(range.high, bar.high)
        IN  /\ setup => (last.signal = "LONG_BREAKOUT" /\ last.entry_price = bar.close)
            /\ ~setup => (last.signal = "NO_SETUP" /\ last.entry_price = None)

C9_Witness ==
    /\ last.op = "check_breakout"
    /\ last.signal = "LONG_BREAKOUT"
    /\ last.entry_price = last.bar.close
    /\ last.bar.close # last.bar.high
    /\ RLt(last.bar.close, strategy[last.symbol].opening_range.high)

\* C19: calculate_opening_range is idempotent: once the range is set, a
\* further call, on any bars-so-far, leaves opening_range unchanged.
C19_Idempotent ==
    [][last'.op = "calculate_opening_range" =>
          \A s \in Symbols :
              strategy[s].opening_range # NoRange =>
                  strategy'[s].opening_range = strategy[s].opening_range]_vars

\* C22: a range that is set has range_width >= 0, and on a range of width 0
\* (range high = range low) check_breakout returns LONG_BREAKOUT for no bar.
C22_FlatRangeNoBreakout ==
    \A s \in Symbols :
        strategy[s].opening_range # NoRange =>
            /\ RLe(R(0), strategy[s].opening_range.range_width)
            /\ ( /\ strategy[s].opening_range.range_width = R(0)
                 /\ last.op = "check_breakout"
                 /\ last.symbol = s )
               => last.signal # "LONG_BREAKOUT"

\* the first half of C22 alone: the width of a set range is never negative
C22_WidthNonNegative ==
    \A s \in Symbols :
        strategy[s].opening_range # NoRange =>
            /\ RLe(R(0), strategy[s].opening_range.range_width)
            /\ strategy[s].opening_range.range_width =
                  RSub(strategy[s].opening_range.high, strategy[s].opening_range.low)

----------------------------------------------------------------------------
(* The bar source (intraday_data.py, external): one-minute bars *)

\* New York minutes of the day at which a bar can exist: 09:29, 09:30, 09:34,
\* 09:35, 09:36, 10:30, 10:31
TimePoints == <<569, 570, 574, 575, 576, 630, 631>>

\* <<open, high, low, close, volume>> of the bars inside the opening window:
\* one between 100 and 101, one that dips to 99
OpeningShapes == { <<100, 101, 100, 101, 10>>, <<101, 101, 99, 100, 10>> }
\* and of the others: quiet, breakout, a wick above the range that closes at
\* 99, rise to 111
Shapes ==
    { <<101, 101, 100, 101, 10>>, <<101, 102, 101, 102, 20>>,
      <<100, 102, 99, 99, 20>>, <<102, 112, 102, 111, 20>> }
ShapesAt(i) ==
    IF TimePoints[i] >= 570 /\ TimePoints[i] < 575 THEN OpeningShapes ELSE Shapes

Stamp(day, i) == [day |-> day, minute |-> TimePoints[i] - UtcOffset(day)]

BarAt(day, i, sh) ==
    Bar(day, TimePoints[i] - UtcOffset(day), sh[1], sh[2], sh[3], sh[4], sh[5])

\* A frame keeps what its readers read: the opening-window bars, in order, and
\* the latest bar (calculate_opening_range filters on the window, the drivers
\* read iloc[-1]); an older bar outside the window is dropped.
Feed(df, bar) ==
    IF df # <<>> /\ ~InOpeningWindow(df[Len(df)])
    THEN Append(SubSeq(df, 1, Len(df) - 1), bar)
    ELSE Append(df, bar)

----------------------------------------------------------------------------
(* trading_bot.py: DayTradingBot *)

LiveSymbols == {"AAPL", "MSFT"}
\* what scan_candidates gives when it finds candidates (candidates[:5])
Watchlist == <<"AAPL", "MSFT">>
WeekDays == {0, 5}      \* a Monday and a Saturday

\* is_market_open at wall-clock time now
is_market_open(now, weekday) ==
    /\ ~(weekday >= 5)
    /\ RLe(<<19, 2>>, get_est_hour(now))
    /\ RLe(get_est_hour(now), R(16))

\* is_trading_window at wall-clock time now
is_trading_window(now) ==
    /\ RLe(<<9583, 1000>>, get_est_hour(now))
    /\ RLe(get_est_hour(now), <<21, 2>>)

\* monitor_symbol with what the fetch gave and what became of the order
\* ("paper" when no order is placed): [pm, active_symbols, outcome]
\* mutant: monitor_symbol does not look for an open position of the symbol
monitor_symbol_no_lookup(p, active_symbols, symbol, fetch, df, order) ==
    IF fetch = "error"
    THEN [pm |-> p, active_symbols |-> active_symbols, outcome |-> "fetch failed"]
    ELSE IF fetch = "empty" \/ df = <<>>
    THEN [pm |-> p, active_symbols |-> active_symbols, outcome |-> "no data"]
    ELSE
    LET known == IF symbol \in DOMAIN active_symbols
                 THEN active_symbols
                 ELSE active_symbols @@ (symbol :> OpeningRangeBreakout)
        st == IF known[symbol].opening_range = NoRange
              THEN calculate_opening_range(known[symbol], df)
              ELSE known[symbol]
        active == [known EXCEPT ![symbol] = st]
        breakout_result == check_breakout(st, df[Len(df)], VOLUME_THRESHOLD)
        levels == calculate_stops_and_targets(st, breakout_result.entry_price)
        opened == open_trade(p, symbol, breakout_result.entry_price,
                             levels.stop_loss, levels.take_profit_conservative)
    IN  IF breakout_result.signal # "LONG_BREAKOUT"
        THEN [pm |-> p, active_symbols |-> active, outcome |-> "no setup"]
        ELSE IF ~can_open_trade(p).allowed
        THEN [pm |-> p, active_symbols |-> active, outcome |-> "denied"]
        ELSE IF opened.raised # ""
        THEN [pm |-> opened.pm, active_symbols |-> active, outcome |-> "error"]
        ELSE [pm |-> opened.pm, active_symbols |-> active,
              outcome |-> IF order = "failed" THEN "entered, order failed"
                          ELSE "entered"]

monitor_symbol(p, active_symbols, symbol, fetch, df, order) ==
    IF fetch = "error"
    THEN [pm |-> p, active_symbols |-> active_symbols, outcome |-> "fetch failed"]
    ELSE IF fetch = "empty" \/ df = <<>>
    THEN [pm |-> p, active_symbols |-> active_symbols, outcome |-> "no data"]
    ELSE
    LET known == IF symbol \in DOMAIN active_symbols
                 THEN active_symbols
                 ELSE active_symbols @@ (symbol :> OpeningRangeBreakout)
        st == IF known[symbol].opening_range = NoRange
              THEN calculate_opening_range(known[symbol], df)
              ELSE known[symbol]
        active == [known EXCEPT ![symbol] = st]
        breakout_result == check_breakout(st, df[Len(df)], VOLUME_THRESHOLD)
        levels == calculate_stops_and_targets(st, breakout_result.entry_price)
        opened == open_trade(p, symbol, breakout_result.entry_price,
                             levels.stop_loss, levels.take_profit_conservative)
    IN  IF breakout_result.signal # "LONG_BREAKOUT"
        THEN [pm |-> p, active_symbols |-> active, outcome |-> "no setup"]
        ELSE IF get_open_position(p, symbol) # 0
        THEN [pm |-> p, active_symbols |-> active, outcome |-> "existing"]
        ELSE IF ~can_open_trade(p).allowed
        THEN [pm |-> p, active_symbols |-> active, outcome |-> "denied"]
        ELSE IF opened.raised # ""
        THEN [pm |-> opened.pm, active_symbols |-> active, outcome |-> "error"]
        ELSE [pm |-> opened.pm, active_symbols |-> active,
              outcome |-> IF order = "failed" THEN "entered, order failed"
                          ELSE "entered"]

\* mutant: the first failed fetch ends monitor_open_positions
RECURSIVE monitor_open_positions_aborts(_, _, _, _, _)
monitor_open_positions_aborts(p, snapshot, k, dfs, failed) ==
    IF k > Len(snapshot) THEN p
    ELSE
    LET trade == snapshot[k]
        df == dfs[trade.symbol]
    IN  IF trade.symbol \in failed
        THEN p
        ELSE IF df = <<>>
        THEN monitor_open_positions_aborts(p, snapshot, k + 1, dfs, failed)
        ELSE IF RLe(df[Len(df)].close, trade.stop_loss)
        THEN monitor_open_positions_aborts(
                close_trade(p, trade.id, trade.stop_loss, "Stop loss").pm,
                snapshot, k + 1, dfs, failed)
        ELSE IF RLe(trade.take_profit, df[Len(df)].close)
        THEN monitor_open_positions_aborts(
                close_trade(p, trade.id, trade.take_profit, "Take profit").pm,
                snapshot, k + 1, dfs, failed)
        ELSE monitor_open_positions_aborts(p, snapshot, k + 1, dfs, failed)

\* monitor_open_positions: the loop over list(open_trades) from its k-th entry;
\* failed are the symbols whose fetch raises
RECURSIVE monitor_open_positions(_, _, _, _, _)
monitor_open_positions(p, snapshot, k, dfs, failed) ==
    IF k > Len(snapshot) THEN p
    ELSE
    LET trade == snapshot[k]
        df == dfs[trade.symbol]
    IN  IF trade.symbol \in failed \/ df = <<>>
        THEN monitor_open_positions(p, snapshot, k + 1, dfs, failed)
        ELSE IF RLe(df[Len(df)].close, trade.stop_loss)
        THEN monitor_open_positions(
                close_trade(p, trade.id, trade.stop_loss, "Stop loss").pm,
                snapshot, k + 1, dfs, failed)
        ELSE IF RLe(trade.take_profit, df[Len(df)].close)
        THEN monitor_open_positions(
                close_trade(p, trade.id, trade.take_profit, "Take profit").pm,
                snapshot, k + 1, dfs, failed)
        ELSE monitor_open_positions(p, snapshot, k + 1, dfs, failed)

\* mutant: a trade whose price cannot be fetched is skipped, as in
\* monitor_open_positions
RECURSIVE close_remaining_skips(_, _, _, _, _)
close_remaining_skips(p, snapshot, k, dfs, failed) ==
    IF k > Len(snapshot) THEN p
    ELSE
    LET trade == snapshot[k]
        df == dfs[trade.symbol]
    IN  IF trade.symbol \in failed \/ df = <<>>
        THEN close_remaining_skips(p, snapshot, k + 1, dfs, failed)
        ELSE close_remaining_skips(
                close_trade(p, trade.id, df[Len(df)].close, "Market close").pm,
                snapshot, k + 1, dfs, failed)

\* run_session's closing loop over list(open_trades), from its k-th entry
RECURSIVE close_remaining(_, _, _, _, _)
close_remaining(p, snapshot, k, dfs, failed) ==
    IF k > Len(snapshot) THEN p
    ELSE
    LET trade == snapshot[k]
        df == dfs[trade.symbol]
        current_price == IF trade.symbol \in failed \/ df = <<>>
                         THEN trade.entry_price
                         ELSE df[Len(df)].close
    IN  close_remaining(close_trade(p, trade.id, current_price, "Market close").pm,
                        snapshot, k + 1, dfs, failed)

\* mutant: the loop only stops on the daily loss
kill_switch_daily_only(p) ==
    IF RLe(RDiv(p.daily_pnl, p.starting_capital), <<-2, 25>>)
    THEN "Max daily loss hit, stopping"
    ELSE ""

\* the kill-switch tests at the end of a loop turn: the message of the break
\* taken, "" when the loop goes on
kill_switch(p) ==
    IF p.losing_trade_hit
    THEN "Losing trade hit, stopping"
    ELSE IF RLe(RDiv(p.daily_pnl, p.starting_capital), <<-2, 25>>)
    THEN "Max daily loss hit, stopping"
    ELSE ""

\* the symbols whose bars a loop over list(open_trades) fetches
OpenSymbols(p) == { p.open_trades[k].symbol : k \in 1..Len(p.open_trades) }

\* history: did the step from engine state p to q close a trade at a loss
ClosedAtLoss(p, q) ==
    \E i \in (Len(p.closed_trades) + 1)..Len(q.closed_trades) :
        RLt(q.closed_trades[i].pnl, R(0))

\* Trade objects a bot run over several dates creates. market.supply is the
\* count after which the bar source gives the candidates nothing: the exact
\* quotients of further compounded trades leave the integer range. A bot that
\* runs one session is given one more, which the daily limit never lets it use.
BotTrades == MAX_TRADES_PER_DAY

\* the bot after __init__, before run_session; the bar source is at 09:29 of
\* day 1
InitLive ==
    /\ pm = PositionManager(STARTING_CAPITAL)
    /\ last = NoCall
    /\ lossToday = FALSE
    /\ strategy = <<>>
    /\ drv = [mode |-> "live", pc |-> "idle", candidate_symbols |-> <<>>, i |-> 0,
              paper |-> TRUE, born |-> <<>>, resets |-> 0]
    /\ \E weekday \in WeekDays :
          market = [mode |-> "live", weekday |-> weekday, now |-> 1,
                    df |-> [s \in LiveSymbols |-> <<>>],
                    day |-> 1, scan |-> Watchlist, supply |-> BotTrades + 1]

\* the bar source moves to the next minute and produces each symbol's bar
NextMarkets ==
    { [market EXCEPT !.now = @ + 1, !.df = [s \in DOMAIN @ |-> Feed(@[s], bars[s])]] :
        bars \in [DOMAIN market.df ->
                    {BarAt(market.day, market.now + 1, sh) : sh \in ShapesAt(market.now + 1)}] }

\* time passes before run_session is called
MarketTick ==
    /\ drv.mode = "live"
    /\ drv.pc = "idle"
    /\ market.now < Len(TimePoints)
    /\ market' \in NextMarkets
    /\ UNCHANGED <<pm, last, lossToday, strategy, drv>>

\* run_session up to the main loop: market-open test, reset, scan
RunSession ==
    /\ drv.mode = "live"
    /\ drv.pc = "idle"
    /\ IF ~is_market_open(Stamp(market.day, market.now), market.weekday)
       THEN /\ drv' = [drv EXCEPT !.pc = "done"]
            /\ last' = [op |-> "run_session", outcome |-> "Market is closed"]
            /\ UNCHANGED <<pm, lossToday>>
       ELSE /\ pm' = reset_daily_limits(pm)
            /\ lossToday' = FALSE
            /\ \E candidates \in {<<>>, market.scan} :
                  IF candidates = <<>>
                  THEN /\ drv' = [drv EXCEPT !.pc = "done", !.resets = @ + 1]
                       /\ last' = [op |-> "run_session", outcome |-> "No candidates"]
                  ELSE /\ drv' = [drv EXCEPT !.pc = "loop", !.resets = @ + 1,
                                             !.candidate_symbols = candidates]
                       /\ last' = [op |-> "run_session", outcome |-> "started"]
    /\ UNCHANGED <<strategy, market>>

\* while self.is_trading_window()
LoopTest ==
    /\ drv.mode = "live"
    /\ drv.pc = "loop"
    /\ drv' = IF is_trading_window(Stamp(market.day, market.now))
              THEN [drv EXCEPT !.pc = "monitor", !.i = 1]
              ELSE [drv EXCEPT !.pc = "closing"]
    /\ last' = [op |-> "is_trading_window"]
    /\ UNCHANGED <<pm, lossToday, strategy, market>>


\* history: the date on which each Strategy of active_symbols was constructed
Born(born, active_symbols, day) ==
    [s \in DOMAIN active_symbols |-> IF s \in DOMAIN born THEN born[s] ELSE day]

\* one monitor_symbol call of the for loop: the fetch succeeds, gives an empty
\* frame or raises; with paper = False the order is placed or _place_order
\* fails (and reports it without raising)
MonitorSymbol ==
    /\ drv.mode = "live"
    /\ drv.pc = "monitor"
    /\ \E fetch \in IF NextId(pm) > market.supply
                     THEN {"empty", "error"} ELSE {"ok", "empty", "error"} :
       \E order \in IF drv.paper THEN {"paper"} ELSE {"placed", "failed"} :
       \E r \in {monitor_symbol(pm, strategy, drv.candidate_symbols[drv.i], fetch,
                                market.df[drv.candidate_symbols[drv.i]], order)} :
          /\ pm' = r.pm
          /\ strategy' = r.active_symbols
          /\ last' = [op |-> "monitor_symbol", symbol |-> drv.candidate_symbols[drv.i],
                      outcome |-> r.outcome]
          /\ drv' = IF drv.i < Len(drv.candidate_symbols)
                    THEN [drv EXCEPT !.i = @ + 1,
                                     !.born = Born(@, r.active_symbols, market.day)]
                    ELSE [drv EXCEPT !.pc = "positions",
                                     !.born = Born(@, r.active_symbols, market.day)]
    /\ UNCHANGED <<lossToday, market>>

MonitorOpenPositions ==
    /\ drv.mode = "live"
    /\ drv.pc = "positions"
    /\ \E failed \in SUBSET OpenSymbols(pm) :
       \E q \in {monitor_open_positions(pm, pm.open_trades, 1, market.df, failed)} :
          /\ pm' = q
          /\ lossToday' = (lossToday \/ ClosedAtLoss(pm, q))
          /\ last' = [op |-> "monitor_open_positions", failed |-> failed]
    /\ drv' = [drv EXCEPT !.pc = "kill"]
    /\ UNCHANGED <<strategy, market>>

\* the kill-switch tests at the end of a loop turn, then time.sleep(60)
KillSwitches ==
    /\ drv.mode = "live"
    /\ drv.pc = "kill"
    /\ IF kill_switch(pm) # ""
       THEN /\ drv' = [drv EXCEPT !.pc = "closing"]
            /\ last' = [op |-> "kill", outcome |-> kill_switch(pm)]
            /\ UNCHANGED market
       ELSE /\ drv' = [drv EXCEPT !.pc = "loop"]
            /\ last' = [op |-> "sleep"]
            /\ market' \in NextMarkets
    /\ UNCHANGED <<pm, lossToday, strategy>>

\* after the loop: close what is still open, at the latest close
CloseRemaining ==
    /\ drv.mode = "live"
    /\ drv.pc = "closing"
    /\ \E failed \in SUBSET OpenSymbols(pm) :
       \E q \in {close_remaining(pm, pm.open_trades, 1, market.df, failed)} :
          /\ pm' = q
          /\ lossToday' = (lossToday \/ ClosedAtLoss(pm, q))
    /\ drv' = [drv EXCEPT !.pc = "done"]
    /\ last' = [op |-> "close_remaining"]
    /\ UNCHANGED <<strategy, market>>

NextLive ==
    \/ MarketTick
    \/ RunSession
    \/ LoopTest
    \/ MonitorSymbol
    \/ MonitorOpenPositions
    \/ KillSwitches
    \/ CloseRemaining

SpecLive == InitLive /\ [][NextLive]_vars

\* the bot constructed with paper = False: orders go to the broker
InitOrders ==
    /\ pm = PositionManager(STARTING_CAPITAL)
    /\ last = NoCall
    /\ lossToday = FALSE
    /\ strategy = <<>>
    /\ drv = [mode |-> "live", pc |-> "idle", candidate_symbols |-> <<>>, i |-> 0,
              paper |-> FALSE, born |-> <<>>, resets |-> 0]
    /\ market = [mode |-> "live", weekday |-> 0, now |-> 1,
                 df |-> [s \in LiveSymbols |-> <<>>],
                 day |-> 1, scan |-> Watchlist, supply |-> BotTrades + 1]

SpecOrders == InitOrders /\ [][NextLive]_vars

MaxSessions == 2    \* run_session calls on one bot, each on a later date

\* a bot whose scanner finds one candidate
InitBot ==
    /\ pm = PositionManager(STARTING_CAPITAL)
    /\ last = NoCall
    /\ lossToday = FALSE
    /\ strategy = <<>>
    /\ drv = [mode |-> "live", pc |-> "idle", candidate_symbols |-> <<>>, i |-> 0,
              paper |-> TRUE, born |-> <<>>, resets |-> 0]
    /\ \E weekday \in WeekDays :
          market = [mode |-> "live", weekday |-> weekday, now |-> 1,
                    df |-> ("AAPL" :> <<>>),
                    day |-> 1, scan |-> <<"AAPL">>, supply |-> BotTrades]

\* run_session has returned; the bot object is kept (its engine and its
\* active_symbols) and the next date begins: the bar source is at 09:29 again
\* and get_1min_bars(days_back=1) no longer reaches yesterday's opening bars
RunAgain ==
    /\ drv.mode = "live"
    /\ drv.pc = "done"
    /\ market.day < MaxSessions
    /\ market' = [market EXCEPT !.day = @ + 1, !.weekday = (@ + 1) % 7, !.now = 1,
                                !.df = [s \in DOMAIN @ |-> <<>>]]
    /\ drv' = [drv EXCEPT !.pc = "idle", !.resets = 0]
    /\ last' = [op |-> "next_date"]
    /\ UNCHANGED <<pm, lossToday, strategy>>

----------------------------------------------------------------------------
(* backtester.py: backtest_symbol *)

MaxDays == 2        \* trading dates in the replayed frame
ReplaySymbol == "AAPL"

\* position_manager.open_trade(symbol=, entry_price=, stop_loss=, take_profit=,
\* entry_time=): the engine's open_trade has no entry_time parameter, the call
\* raises before the body runs
open_trade_kw(p, symbol, entry_price, stop_loss, take_profit, entry_time) ==
    [pm |-> p,
     raised |-> "TypeError: open_trade() got an unexpected keyword argument 'entry_time'",
     id |-> 0]

\* position_manager.close_trade(trade, exit_price=, reason=, exit_time=):
\* likewise no exit_time parameter
close_trade_kw(p, id, exit_price, reason, exit_time) ==
    [pm |-> p,
     raised |-> "TypeError: close_trade() got an unexpected keyword argument 'exit_time'"]

\* the reason text should_exit gives with its signal (the price is left out)
ExitReason(signal) ==
    IF signal = "EXIT_LOSS" THEN "Stop loss hit" ELSE "Take profit hit"

\* step 2 of the per-bar loop on row: [pm, raised, id], id being the open
\* position (a trade id, 0 for None) when the step returns
backtest_entry(p, self, open_position, row) ==
    LET breakout == check_breakout(self, row, VOLUME_THRESHOLD)
        levels == calculate_stops_and_targets(self, breakout.entry_price)
    IN  IF open_position = 0 /\ breakout.signal = "LONG_BREAKOUT"
           /\ can_open_trade(p).allowed
        THEN open_trade_kw(p, ReplaySymbol, breakout.entry_price,
                           levels.stop_loss, levels.take_profit_conservative,
                           row.time)
        ELSE [pm |-> p, raised |-> "", id |-> open_position]

\* step 3 of the per-bar loop on row: [pm, raised, id]
backtest_exit(p, self, open_position, row) ==
    LET held == GetId(p.open_trades, open_position)
        exit_check == should_exit(row.close, held.stop_loss, held.take_profit, None)
        closed == close_trade_kw(p, open_position, exit_check.exit_price,
                                 ExitReason(exit_check.signal), row.time)
    IN  IF open_position = 0 \/ exit_check.signal = "HOLD"
        THEN [pm |-> p, raised |-> "", id |-> open_position]
        ELSE [pm |-> closed.pm, raised |-> closed.raised,
              id |-> IF closed.raised = "" THEN 0 ELSE open_position]

\* mutant: the range is computed on every row
backtest_range_always(self, day_df) == calculate_opening_range(self, day_df)

\* step 1 of the per-bar loop, on the prefix day_df
backtest_range(self, day_df) ==
    IF self.opening_range = NoRange
    THEN calculate_opening_range(self, day_df)
    ELSE self

\* the symbols the backtest run replays, one backtest_symbol call each
symbols == <<"SPY", "QQQ", "AAPL">>

\* the backtest run is at its first symbol: backtest_symbol is called on a
\* frame whose bars are read in order. drv.call is the symbol's place in
\* symbols, drv.engine counts the PositionManager objects the run has built,
\* and drv.engines keeps, per trading date, the engines that were given a bar
\* of that date (history).
InitReplay ==
    /\ pm = PositionManager(STARTING_CAPITAL)
    /\ last = NoCall
    /\ lossToday = FALSE
    /\ strategy = <<>>
    /\ drv = [mode |-> "replay", pc |-> "start", day |-> 0, open_position |-> 0,
              born |-> 0, resets |-> 0, call |-> 1, engine |-> 0,
              engines |-> [d \in 1..MaxDays |-> {}]]
    /\ market = [mode |-> "replay", now |-> 0, day_df |-> <<>>]

\* if df.empty: return None; else the call builds its own engine and the days
\* are grouped
ReplayStart ==
    /\ drv.mode = "replay"
    /\ drv.pc = "start"
    /\ \E empty \in BOOLEAN :
          IF empty
          THEN /\ drv' = [drv EXCEPT !.pc = "done"]
               /\ last' = [op |-> "backtest_symbol", outcome |-> "None"]
               /\ pm' = pm
          ELSE /\ drv' = [drv EXCEPT !.pc = "days", !.engine = @ + 1]
               /\ last' = [op |-> "backtest_symbol", outcome |-> "started"]
               /\ pm' = PositionManager(STARTING_CAPITAL)
    /\ UNCHANGED <<lossToday, strategy, market>>

\* the head of the loop over the trading dates: reset, fresh strategy
ReplayStartDay ==
    /\ drv.mode = "replay"
    /\ drv.pc = "days"
    /\ drv.day < MaxDays
    /\ pm' = reset_daily_limits(pm)
    /\ lossToday' = FALSE
    /\ strategy' = (ReplaySymbol :> OpeningRangeBreakout)
    /\ drv' = [drv EXCEPT !.pc = "bars", !.day = @ + 1, !.born = drv.day + 1,
                          !.resets = 1]
    /\ market' = [market EXCEPT !.now = 0, !.day_df = <<>>]
    /\ last' = [op |-> "reset_daily_limits"]

\* one row of the day: steps 1 to 3
ReplayBar ==
    /\ drv.mode = "replay"
    /\ drv.pc = "bars"
    /\ \E i \in (market.now + 1)..Len(TimePoints) :
       \E sh \in ShapesAt(i) :
       \E day_df \in {Feed(market.day_df, BarAt(drv.day, i, sh))} :
       \E st \in {backtest_range(strategy[ReplaySymbol], day_df)} :
       \E entry \in {backtest_entry(pm, st, drv.open_position, day_df[Len(day_df)])} :
       \E r \in {IF entry.raised # "" THEN entry
                 ELSE backtest_exit(entry.pm, st, entry.id, day_df[Len(day_df)])} :
          /\ pm' = r.pm
          /\ lossToday' = (lossToday \/ ClosedAtLoss(pm, r.pm))
          /\ strategy' = (ReplaySymbol :> st)
          /\ market' = [market EXCEPT !.now = i, !.day_df = day_df]
          /\ drv' = [drv EXCEPT !.open_position = r.id,
                                !.pc = IF r.raised = "" THEN "bars" ELSE "crashed",
                                !.engines[drv.day] = @ \cup {drv.engine}]
          /\ last' = [op |-> "backtest_bar", raised |-> r.raised]

\* after the day's last row: close what is open at the last close
ReplayEndDay ==
    /\ drv.mode = "replay"
    /\ drv.pc = "bars"
    /\ market.day_df # <<>>
    /\ \E r \in {IF drv.open_position = 0
                 THEN [pm |-> pm, raised |-> ""]
                 ELSE close_trade_kw(pm, drv.open_position,
                                     market.day_df[Len(market.day_df)].close,
                                     "End of day",
                                     market.day_df[Len(market.day_df)].time)} :
          /\ pm' = r.pm
          /\ lossToday' = (lossToday \/ ClosedAtLoss(pm, r.pm))
          /\ drv' = IF r.raised = ""
                    THEN [drv EXCEPT !.pc = "days", !.open_position = 0]
                    ELSE [drv EXCEPT !.pc = "crashed"]
          /\ last' = [op |-> "end_of_day", raised |-> r.raised]
    /\ UNCHANGED <<strategy, market>>

\* no trading date is left: the summary is returned
ReplayFinish ==
    /\ drv.mode = "replay"
    /\ drv.pc = "days"
    /\ drv.day >= 1
    /\ drv' = [drv EXCEPT !.pc = "done"]
    /\ last' = [op |-> "backtest_symbol", outcome |-> "summary"]
    /\ UNCHANGED <<pm, lossToday, strategy, market>>

\* the for loop of the backtest run: backtest_symbol has returned, or its
\* exception was caught and reported, and the next symbol's frame is fetched
\* (every frame covers the same days_back dates)
ReplayNextSymbol ==
    /\ drv.mode = "replay"
    /\ drv.pc \in {"done", "crashed"}
    /\ drv.call < Len(symbols)
    /\ drv' = [drv EXCEPT !.pc = "start", !.call = @ + 1, !.day = 0,
                          !.open_position = 0, !.born = 0, !.resets = 0]
    /\ market' = [market EXCEPT !.now = 0, !.day_df = <<>>]
    /\ strategy' = <<>>
    /\ lossToday' = FALSE
    /\ last' = [op |-> "next_symbol"]
    /\ UNCHANGED pm

NextReplay ==
    \/ ReplayStart
    \/ ReplayStartDay
    \/ ReplayBar
    \/ ReplayEndDay
    \/ ReplayFinish
    \/ ReplayNextSymbol

SpecReplay == InitReplay /\ [][NextReplay]_vars

----------------------------------------------------------------------------
(* The session driver, either way *)

InitSession == InitLive \/ InitReplay

NextSession ==
    \/ MarketTick
    \/ RunSession
    \/ LoopTest
    \/ MonitorSymbol
    \/ MonitorOpenPositions
    \/ KillSwitches
    \/ CloseRemaining
    \/ ReplayStart
    \/ ReplayStartDay
    \/ ReplayBar
    \/ ReplayEndDay
    \/ ReplayFinish
    \/ ReplayNextSymbol

SpecSession == InitSession /\ [][NextSession]_vars

\* ---- the two drivers on the same bars ----

\* what a driver decided on one bar: the entry step's decision and the exit
\* step's decision
Decision(kind, price, stop, target) ==
    [kind |-> kind, price |-> price, stop |-> stop, target |-> target]

NoEntry == Decision("no setup", None, None, None)

Hold == [kind |-> "hold", price |-> None, win |-> FALSE]

\* the entry decision read off the engine: the trade the step opened
EntryOf(p, q) ==
    IF NextId(q) > NextId(p)
    THEN LET trade == q.open_trades[Len(q.open_trades)]
         IN  Decision("entered", trade.entry_price, trade.stop_loss, trade.take_profit)
    ELSE NoEntry

\* the exit decision read off the engine: the trade the step closed
ExitOf(p, q) ==
    IF Len(q.closed_trades) > Len(p.closed_trades)
    THEN LET trade == q.closed_trades[Len(q.closed_trades)]
         IN  [kind |-> "exited", price |-> trade.exit_price,
              win |-> RLt(R(0), trade.pnl)]
    ELSE Hold

\* the replay's entry decision on a row, entry being what backtest_entry
\* returned from the engine p
ReplayEntry(p, entry) ==
    IF entry.raised # ""
    THEN Decision("raised", None, None, None)
    ELSE EntryOf(p, entry.pm)

\* the replay's exit decision on a row, exit being what backtest_exit
\* returned from the engine p
ReplayExit(p, exit) ==
    IF exit.raised # ""
    THEN [kind |-> "raised", price |-> None, win |-> FALSE]
    ELSE ExitOf(p, exit.pm)

\* the bot's entry decision, m being what monitor_symbol returned from the
\* engine p
LiveEntry(p, m) ==
    IF m.outcome = "error"
    THEN Decision("raised", None, None, None)
    ELSE EntryOf(p, m.pm)

\* backtest_symbol and a bot, each with its own engine and strategy, before
\* the first bar of one trading date of one symbol
InitCompare ==
    /\ pm = [replay |-> PositionManager(STARTING_CAPITAL),
             live |-> PositionManager(STARTING_CAPITAL)]
    /\ strategy = [replay |-> OpeningRangeBreakout, live |-> <<>>]
    /\ last = NoCall
    /\ lossToday = FALSE
    /\ drv = [mode |-> "compare", open_position |-> 0, replay |-> "running",
              live |-> "running"]
    /\ market = [mode |-> "compare", now |-> 0, day_df |-> <<>>]

\* the next bar of the date is given to both: the replay runs its row, the
\* bot polls once. The replay ends when a call raises, the bot's loop when a
\* kill switch breaks it.
CompareBar ==
    /\ drv.mode = "compare"
    /\ drv.replay = "running"
    /\ drv.live = "running"
    /\ \E i \in (market.now + 1)..Len(TimePoints) :
       \E sh \in ShapesAt(i) :
       \E day_df \in {Feed(market.day_df, BarAt(1, i, sh))} :
       \E st \in {backtest_range(strategy.replay, day_df)} :
       \E entry \in {backtest_entry(pm.replay, st, drv.open_position,
                                    day_df[Len(day_df)])} :
       \E exit \in {IF entry.raised # "" THEN entry
                    ELSE backtest_exit(entry.pm, st, entry.id, day_df[Len(day_df)])} :
       \E m \in {monitor_symbol(pm.live, strategy.live, ReplaySymbol, "ok", day_df,
                                "paper")} :
       \E q \in {monitor_open_positions(m.pm, m.pm.open_trades, 1,
                                        (ReplaySymbol :> day_df), {})} :
          /\ pm' = [replay |-> exit.pm, live |-> q]
          /\ strategy' = [replay |-> st, live |-> m.active_symbols]
          /\ market' = [market EXCEPT !.now = i, !.day_df = day_df]
          /\ drv' = [drv EXCEPT !.open_position = exit.id,
                                !.replay = IF exit.raised = "" THEN "running"
                                           ELSE "crashed",
                                !.live = IF kill_switch(q) = "" THEN "running"
                                         ELSE "stopped"]
          /\ last' = [op |-> "bar",
                      replay |-> [entry |-> ReplayEntry(pm.replay, entry),
                                  exit |-> IF entry.raised # "" THEN Hold
                                           ELSE ReplayExit(entry.pm, exit)],
                      live |-> [entry |-> LiveEntry(pm.live, m),
                                exit |-> ExitOf(m.pm, q)]]
    /\ UNCHANGED lossToday

NextCompare == CompareBar

SpecCompare == InitCompare /\ [][NextCompare]_vars

\* the drivers over successive trading dates: a bot that runs a session on
\* each date, or a replay of a frame of several dates
InitDates == InitBot \/ InitReplay

NextDates ==
    \/ MarketTick
    \/ RunSession
    \/ LoopTest
    \/ MonitorSymbol
    \/ MonitorOpenPositions
    \/ KillSwitches
    \/ CloseRemaining
    \/ RunAgain
    \/ ReplayStart
    \/ ReplayStartDay
    \/ ReplayBar
    \/ ReplayEndDay
    \/ ReplayFinish
    \/ ReplayNextSymbol

SpecDates == InitDates /\ [][NextDates]_vars

\* C2: in a session driven by the session driver (replay backtest_symbol or
\* live run_session), open_trades holds at most one Trade per symbol at every
\* point
C2_OnePerSymbol ==
    \A i, j \in 1..Len(pm.open_trades) :
        pm.open_trades[i].symbol = pm.open_trades[j].symbol => i = j

\* the live loop met a breakout of a symbol that already has its open Trade,
\* with two Trades open, and left the book alone
C2_Witness ==
    /\ drv.mode = "live"
    /\ Len(pm.open_trades) = 2
    /\ last.op = "monitor_symbol"
    /\ last.outcome = "existing"

\* the last row of a frame
LastBar(df) == df[Len(df)]

\* the entry the drivers size on a breakout bar: the stop is the range low
EntrySize(p, self, row) ==
    calculate_position_size(p, row.close, self.opening_range.low)

\* row is a LONG_BREAKOUT whose admission is denied
DeniedBreakout(p, self, row) ==
    /\ check_breakout(self, row, VOLUME_THRESHOLD).signal = "LONG_BREAKOUT"
    /\ \/ ~can_open_trade(p).allowed
       \/ RLe(EntrySize(p, self, row), R(0))

\* row is a LONG_BREAKOUT that is admitted
AdmittedBreakout(p, self, row) ==
    /\ check_breakout(self, row, VOLUME_THRESHOLD).signal = "LONG_BREAKOUT"
    /\ can_open_trade(p).allowed
    /\ RLt(R(0), EntrySize(p, self, row))

\* C15: in the session driver a denied LONG_BREAKOUT (a kill switch tripped, or
\* a position size <= 0) is no fault: no trade is entered for that bar and the
\* driver goes on with the session.
C15_DenialIsNoFault ==
    [][/\ ( /\ drv.mode = "replay"
            /\ last'.op = "backtest_bar"
            /\ drv.open_position = 0
            /\ DeniedBreakout(pm, strategy'[ReplaySymbol], LastBar(market'.day_df)) )
          => /\ last'.raised = ""
             /\ drv'.pc = "bars"
             /\ pm'.open_trades = pm.open_trades
       /\ ( /\ drv.mode = "live"
            /\ last'.op = "monitor_symbol"
            /\ last'.symbol \in DOMAIN strategy'
            /\ market.df[last'.symbol] # <<>>
            /\ DeniedBreakout(pm, strategy'[last'.symbol],
                              LastBar(market.df[last'.symbol])) )
          => /\ drv'.pc \in {"monitor", "positions"}
             /\ pm'.open_trades = pm.open_trades]_vars

\* C16: in replay a position entered on a bar is held from that bar on (its
\* stop is below and its target above the entry), and a position still held
\* when the rows of the date are exhausted is closed once, at the last row's
\* close, with reason "End of day", the pnl being applied to current_capital.
C16_EndOfDayClose ==
    [][drv.mode = "replay" =>
          /\ ( /\ last'.op = "backtest_bar"
               /\ drv.open_position = 0
               /\ AdmittedBreakout(pm, strategy'[ReplaySymbol], LastBar(market'.day_df)) )
             => /\ drv'.open_position # 0
                /\ HasId(pm'.open_trades, drv'.open_position)
          /\ (last'.op = "end_of_day" /\ drv.open_position # 0)
             => /\ last'.raised = ""
                /\ pm'.open_trades = RemoveId(pm.open_trades, drv.open_position)
                /\ pm'.closed_trades =
                      Append(pm.closed_trades,
                             TradeClose(GetId(pm.open_trades, drv.open_position),
                                        LastBar(market.day_df).close, "End of day"))
                /\ pm'.current_capital =
                      RAdd(pm.current_capital,
                           pm'.closed_trades[Len(pm'.closed_trades)].pnl)]_vars

\* C17: no position is held across trading dates: open_trades is empty when
\* the driver starts a date (after its reset_daily_limits) and when a session
\* has ended.
C17_FlatBetweenDates ==
    /\ (drv.mode = "replay" /\ last.op = "reset_daily_limits") => pm.open_trades = <<>>
    /\ (drv.mode = "live" /\ last.op = "run_session") => pm.open_trades = <<>>
    /\ drv.pc \in {"done", "crashed"} => pm.open_trades = <<>>

\* a live session ended by closing two positions at the market
C17_Witness ==
    /\ drv.mode = "live"
    /\ drv.pc = "done"
    /\ Len(pm.closed_trades) = 2
    /\ \A i \in 1..2 : pm.closed_trades[i].exit_reason = "Market close"

\* C18: within a trading date, a strategy's opening range, once set, is not
\* changed by any later bar.
C18_RangeFixed ==
    [][\A s \in DOMAIN strategy :
          ( /\ strategy[s].opening_range # NoRange
            /\ drv.mode = "replay" => drv'.day = drv.day )
          => /\ s \in DOMAIN strategy'
             /\ strategy'[s].opening_range = strategy[s].opening_range]_vars

\* the replay has the range of the first opening bar and has since processed a
\* later opening-window bar of the date with a lower low
C18_Witness ==
    /\ drv.mode = "replay"
    /\ ReplaySymbol \in DOMAIN strategy
    /\ strategy[ReplaySymbol].opening_range # NoRange
    /\ \E i \in 1..Len(market.day_df) :
          /\ InOpeningWindow(market.day_df[i])
          /\ RLt(market.day_df[i].low, strategy[ReplaySymbol].opening_range.low)

\* the range over all opening-window bars of a frame
FullRange(df) == calculate_opening_range(OpeningRangeBreakout, df).opening_range

\* C20: the opening range used for a symbol and date is max(high), min(low),
\* high - low and mean(volume) over all the opening-window bars of that date;
\* in replay this is so for the range used on every bar of the trading window.
C20_RangeOverAllOpeningBars ==
    /\ ( /\ drv.mode = "replay"
         /\ last.op = "backtest_bar"
         /\ LocalMinute(LastBar(market.day_df).time) >= 9 * 60 + 35
         /\ strategy[ReplaySymbol].opening_range # NoRange )
       => strategy[ReplaySymbol].opening_range = FullRange(market.day_df)
    /\ ( /\ drv.mode = "live"
         /\ last.op = "monitor_symbol"
         /\ last.symbol \in DOMAIN strategy
         /\ strategy[last.symbol].opening_range # NoRange )
       => strategy[last.symbol].opening_range = FullRange(market.df[last.symbol])

\* C29: a live session started while the market is open polls until the
\* trading window has closed or a kill switch has tripped: when it leaves the
\* loop for the closing of positions, the time is past 10:30 New York time, or
\* losing_trade_hit is set, or the daily loss has reached the threshold.
C29_PollsUntilWindowEnd ==
    (drv.mode = "live" /\ drv.pc = "closing") =>
        \/ RLt(TRADING_WINDOW_END, get_est_hour(Stamp(market.day, market.now)))
        \/ pm.losing_trade_hit
        \/ DailyLossTripped

\* C27: the engine's open_trade and close_trade accept the timestamp the
\* replay driver supplies (entry_time=, exit_time=): no call of the replay
\* raises TypeError for it, so an admitted entry gives a Trade.
C27_TimestampAccepted ==
    (drv.mode = "replay" /\ last.op \in {"backtest_bar", "end_of_day"}) =>
        /\ last.raised #
              "TypeError: open_trade() got an unexpected keyword argument 'entry_time'"
        /\ last.raised #
              "TypeError: close_trade() got an unexpected keyword argument 'exit_time'"

\* C25: the session loop ends early once losing_trade_hit is set or the daily
\* loss has reached the threshold: after the poll in which that happened no
\* further bar is checked for entry (the loop is not re-entered), and the
\* session then ends with every position closed.
C25_StopsAfterKill ==
    /\ (drv.mode = "live" /\ drv.pc \in {"loop", "monitor", "positions"}) =>
          ~(pm.losing_trade_hit \/ DailyLossTripped)
    /\ (drv.mode = "live" /\ last.op = "close_remaining") => pm.open_trades = <<>>
    /\ (drv.mode = "replay" /\ drv.pc = "bars") =>
          ~(pm.losing_trade_hit \/ DailyLossTripped)

\* at 09:36 one position was stopped out at a loss; the session ended there,
\* before the window's end, by closing the other position at the market
C25_Witness ==
    /\ drv.mode = "live"
    /\ drv.pc = "done"
    /\ last.op = "close_remaining"
    /\ LocalMinute(Stamp(market.day, market.now)) = 9 * 60 + 36
    /\ Len(pm.closed_trades) = 2
    /\ pm.closed_trades[1].exit_reason = "Stop loss"
    /\ RLt(pm.closed_trades[1].pnl, R(0))
    /\ pm.closed_trades[2].exit_reason = "Market close"
    /\ pm.losing_trade_hit

DayCountersZero ==
    /\ pm.trades_today = 0
    /\ pm.losing_trade_hit = FALSE
    /\ pm.daily_pnl = R(0)

C30_StrategyPerDate ==
    /\ ( /\ drv.mode = "live"
         /\ last.op = "monitor_symbol"
         /\ last.outcome \notin {"fetch failed", "no data"} )
       => drv.born[last.symbol] = market.day
    /\ (drv.mode = "replay" /\ last.op = "backtest_bar") => drv.born = drv.day

\* C24: the daily counters and the account are one state shared by all the
\* symbols processed on a date, in the replay as in a live session: every bar
\* of a date, whatever its symbol, is given to the same engine; over all
\* symbols a live date opens at most MAX_TRADES_PER_DAY trades, and after a
\* losing close no symbol is entered on that date.
C24_SharedAcrossSymbols ==
    /\ drv.mode = "replay"
          => \A d \in DOMAIN drv.engines : Cardinality(drv.engines[d]) <= 1
    /\ drv.mode = "live"
          => /\ Len(pm.open_trades) + Len(pm.closed_trades) <= MAX_TRADES_PER_DAY
             /\ (lossToday /\ last.op = "monitor_symbol")
                   => last.outcome \notin {"entered", "entered, order failed"}

\* the live part of C24 and the replay of one symbol: these hold
C24_SharedInLive ==
    /\ (drv.mode = "replay" /\ drv.call = 1)
          => \A d \in DOMAIN drv.engines : Cardinality(drv.engines[d]) <= 1
    /\ drv.mode = "live"
          => /\ Len(pm.open_trades) + Len(pm.closed_trades) <= MAX_TRADES_PER_DAY
             /\ (lossToday /\ last.op = "monitor_symbol")
                   => last.outcome \notin {"entered", "entered, order failed"}

\* C21: given the same bars of one symbol and one date in the same order, the
\* bot polling once per bar, the replay and the bot hold the same opening range
\* after every bar and take the same decisions on it (no setup, or entered at
\* a price with a stop and a target; hold, or exited at a price as a win or a
\* loss).
C21_SameDecisions ==
    (drv.mode = "compare" /\ last.op = "bar")
       => /\ strategy.replay = strategy.live[ReplaySymbol]
          /\ last.replay = last.live

\* the part of C21 that holds: the two ranges agree after every bar, and the
\* decisions agree on every bar on which the bot does not try an entry
C21_SameUntilEntry ==
    (drv.mode = "compare" /\ last.op = "bar")
       => /\ strategy.replay = strategy.live[ReplaySymbol]
          /\ last.live.entry = NoEntry => last.replay = last.live

\* the Trades the engine holds, open ones first
AllTrades == pm.open_trades \o pm.closed_trades

\* C37: every Trade a driver created through open_trade has quantity > 0 and
\* stop_loss < entry_price < take_profit, its stop_loss being the low of the
\* symbol's opening range and its take_profit entry_price x 1.08.
C37_TradeLevels ==
    drv.mode \in {"live", "replay"} =>
        \A i \in 1..Len(AllTrades) :
            LET trade == AllTrades[i] IN
            /\ RLt(R(0), trade.quantity)
            /\ RLt(trade.stop_loss, trade.entry_price)
            /\ RLt(trade.entry_price, trade.take_profit)
            /\ trade.take_profit = RMul(trade.entry_price, <<27, 25>>)
            /\ trade.symbol \in DOMAIN strategy
            /\ trade.stop_loss = strategy[trade.symbol].opening_range.low

\* the bot has just entered AAPL
C37_Witness ==
    /\ drv.mode = "live"
    /\ last.op = "monitor_symbol"
    /\ last.outcome = "entered"
    /\ Len(pm.open_trades) = 1
    /\ pm.open_trades[1].symbol = "AAPL"
    /\ pm.closed_trades = <<>>

\* C33: while a position of a symbol is open no breakout bar of that symbol
\* leads to an entry: a driver's step that enters a symbol starts with no
\* open position of it and with can_open_trade allowing, and a step that
\* starts with a position of the symbol open creates no Trade.
C33_OneEntryWhileOpen ==
    [][/\ (drv.mode = "live" /\ last'.op = "monitor_symbol")
           => /\ NextId(pm') > NextId(pm)
                    => /\ get_open_position(pm, last'.symbol) = 0
                       /\ can_open_trade(pm).allowed
              /\ get_open_position(pm, last'.symbol) # 0 => pm' = pm
       /\ (drv.mode = "replay" /\ last'.op = "backtest_bar")
           => /\ NextId(pm') > NextId(pm)
                    => /\ drv.open_position = 0
                       /\ can_open_trade(pm).allowed
              /\ drv.open_position # 0 => NextId(pm') = NextId(pm)]_vars

\* a breakout bar of AAPL comes while its position is open: no entry
C33_Witness ==
    /\ drv.mode = "live"
    /\ last.op = "monitor_symbol"
    /\ last.symbol = "AAPL"
    /\ last.outcome = "existing"
    /\ get_open_position(pm, "AAPL") # 0
    /\ pm.trades_today = 1

\* AAPL is entered a second time on the date, after its first position was
\* closed at the target
C33_Reentry ==
    /\ drv.mode = "live"
    /\ last.op = "monitor_symbol"
    /\ last.outcome = "entered"
    /\ pm.trades_today = 2
    /\ Len(pm.closed_trades) = 1
    /\ pm.closed_trades[1].symbol = "AAPL"
    /\ pm.closed_trades[1].exit_reason = "Take profit"
    /\ Len(pm.open_trades) = 1
    /\ pm.open_trades[1].symbol = "AAPL"

\* the bar's New York time lies in the trading window
InTradingWindow(bar) ==
    /\ RLe(TRADING_WINDOW_START, get_est_hour(bar.time))
    /\ RLe(get_est_hour(bar.time), TRADING_WINDOW_END)

\* a driver has just decided to enter on the last bar of df with the
\* Strategy self: the bar is in the trading window, self holds an opening
\* range and the date's frame has a bar in the opening window
EntryOnDatesRange(self, df) ==
    /\ InTradingWindow(df[Len(df)])
    /\ self.opening_range # NoRange
    /\ SelectSeq(df, InOpeningWindow) # <<>>

\* C32: every trade of a driven session is entered on a bar whose New York
\* time lies in the trading window, with a Strategy whose opening range was
\* set on the bar's date; a date without a bar in the opening window has no
\* entry.
C32_EntryInWindow ==
    /\ ( /\ drv.mode = "live"
         /\ last.op = "monitor_symbol"
         /\ last.outcome \in {"entered", "entered, order failed"} )
       => /\ EntryOnDatesRange(strategy[last.symbol], market.df[last.symbol])
          /\ drv.born[last.symbol] = market.day
    /\ ( /\ drv.mode = "replay"
         /\ last.op = "backtest_bar"
         /\ last.raised # "" )
       => /\ EntryOnDatesRange(strategy[ReplaySymbol], market.day_df)
          /\ drv.born = drv.day

\* the part of C32 that holds: the entries of a bot's first session and the
\* entries the replay decides on
C32_FirstSession ==
    (drv.mode = "live" => market.day = 1) => C32_EntryInWindow

\* the risk a Trade carries to its stop: quantity * (entry_price - stop_loss)
RiskAtStop(t) == RMul(t.quantity, RSub(t.entry_price, t.stop_loss))

\* C36: in replay the exit check of the row on which a position is entered
\* says HOLD (the entry is the row's close, above the stop and below the
\* target): the row ends with the position open and nothing closed. A position
\* entered on the date's last row leaves at the end of the day with pnl 0.
C36_EntryBarHolds ==
    [][drv.mode = "replay" =>
          /\ ( /\ last'.op = "backtest_bar"
               /\ drv.open_position = 0
               /\ AdmittedBreakout(pm, strategy'[ReplaySymbol], LastBar(market'.day_df)) )
             => /\ HasId(pm'.open_trades, drv'.open_position)
                /\ should_exit(LastBar(market'.day_df).close,
                               GetId(pm'.open_trades, drv'.open_position).stop_loss,
                               GetId(pm'.open_trades, drv'.open_position).take_profit,
                               None).signal = "HOLD"
                /\ pm'.closed_trades = pm.closed_trades
          /\ ( /\ last'.op = "end_of_day"
               /\ HasId(pm.open_trades, drv.open_position)
               /\ GetId(pm.open_trades, drv.open_position).entry_price
                     = LastBar(market.day_df).close )
             => /\ Len(pm'.closed_trades) = Len(pm.closed_trades) + 1
                /\ LastBar(pm'.closed_trades).pnl = R(0)]_vars

\* C35: in replay an entry fixes a risk budget of 0.02 * current_capital (the
\* quantity times the distance to the stop), no closed trade loses more than
\* its budget, it loses exactly the budget when and only when the stop loss
\* closed it, an end-of-day close is priced strictly between stop and target,
\* and current_capital stays positive.
C35_LossWithinBudget ==
    [][drv.mode = "replay" =>
          /\ ( /\ last'.op = "backtest_bar"
               /\ drv.open_position = 0
               /\ AdmittedBreakout(pm, strategy'[ReplaySymbol], LastBar(market'.day_df)) )
             => /\ HasId(pm'.open_trades, drv'.open_position)
                /\ RiskAtStop(GetId(pm'.open_trades, drv'.open_position))
                      = RMul(RISK_PER_TRADE, pm.current_capital)
          /\ \A i \in (Len(pm.closed_trades) + 1)..Len(pm'.closed_trades) :
                /\ RLe(RNeg(RiskAtStop(pm'.closed_trades[i])), pm'.closed_trades[i].pnl)
                /\ (pm'.closed_trades[i].pnl = RNeg(RiskAtStop(pm'.closed_trades[i])))
                      <=> (pm'.closed_trades[i].exit_reason = "Stop loss hit")
                /\ pm'.closed_trades[i].exit_reason = "End of day"
                      => /\ RLt(pm'.closed_trades[i].stop_loss,
                                pm'.closed_trades[i].exit_price)
                         /\ RLt(pm'.closed_trades[i].exit_price,
                                pm'.closed_trades[i].take_profit)
          /\ RLt(R(0), pm'.current_capital)]_vars

\* the part of C35 that the replay does keep: its engine closes no trade and
\* its capital is the starting capital
C35_ReplayClosesNothing ==
    drv.mode = "replay" =>
        /\ pm.closed_trades = <<>>
        /\ pm.current_capital = pm.starting_capital

----------------------------------------------------------------------------
(* backtester.py: the grouping of a frame into trading dates *)

\* df['time'].dt.date on the UTC timestamps of get_1min_bars: the UTC date
trading_date(dt) == dt.day

\* the calendar date of dt.astimezone(ZoneInfo("America/New_York"))
NewYorkDate(dt) == IF dt.minute + UtcOffset(dt.day) < 0 THEN dt.day - 1 ELSE dt.day

\* The UTC timestamps a replayed frame can hold a bar at, in order, over two
\* winter dates: 14:30 and 14:35 of the first (09:30 and 09:35 New York), 00:30
\* of the second (19:30 New York, still the first date there), 14:30 and 14:35
\* of the second.
GroupStamps ==
    << [day |-> 3, minute |-> 870], [day |-> 3, minute |-> 875],
       [day |-> 4, minute |-> 30],
       [day |-> 4, minute |-> 870], [day |-> 4, minute |-> 875] >>

\* <<open, high, low, close, volume>> of a bar: quiet, or up through 101
GroupShapes == { <<100, 101, 100, 101, 10>>, <<101, 102, 101, 102, 20>> }

\* the frame with the bars of GroupStamps that present picks, shaped by sh
FrameOf(present, sh) ==
    LET all == [i \in 1..Len(GroupStamps) |->
                  [ Bar(GroupStamps[i].day, GroupStamps[i].minute,
                        sh[i][1], sh[i][2], sh[i][3], sh[i][4], sh[i][5])
                    EXCEPT !.open = IF present[i] THEN @ ELSE None ]]
    IN  SelectSeq(all, LAMBDA bar : bar.open # None)

\* the keys of df.groupby('trading_date', sort=True), in order
RECURSIVE GroupKeys(_)
GroupKeys(df) ==
    IF df = <<>> THEN <<>>
    ELSE LET rest == GroupKeys(Tail(df)) IN
         IF rest # <<>> /\ rest[1] = trading_date(df[1].time)
         THEN rest
         ELSE <<trading_date(df[1].time)>> \o rest

\* the group of key: its rows, reset_index(drop=True)
GroupOf(df, key) == SelectSeq(df, LAMBDA bar : trading_date(bar.time) = key)

\* backtest_symbol is called on a frame df. drv.keys are the groupby keys,
\* drv.group the place of the current one, drv.day_df its rows and drv.idx the
\* rows of it already iterated; drv.seen keeps, for every row iterated, its
\* time and the number of the loop pass (reset, Strategy, end-of-day close)
\* that processed it (history).
InitGroups ==
    /\ pm = PositionManager(STARTING_CAPITAL)
    /\ last = NoCall
    /\ lossToday = FALSE
    /\ strategy = <<>>
    /\ drv = [mode |-> "groups", pc |-> "start", keys |-> <<>>, group |-> 0,
              day_df |-> <<>>, idx |-> 0, open_position |-> 0, seen |-> <<>>]
    /\ \E present \in [1..Len(GroupStamps) -> BOOLEAN] :
       \E sh \in [1..Len(GroupStamps) -> GroupShapes] :
          market = [mode |-> "groups", df |-> FrameOf(present, sh)]

\* lines 33-44: an empty frame returns None, else the dates are keyed
GroupsStart ==
    /\ drv.mode = "groups"
    /\ drv.pc = "start"
    /\ IF market.df = <<>>
       THEN /\ drv' = [drv EXCEPT !.pc = "done"]
            /\ last' = [op |-> "backtest_symbol", outcome |-> "None"]
       ELSE /\ drv' = [drv EXCEPT !.pc = "days", !.keys = GroupKeys(market.df)]
            /\ last' = [op |-> "backtest_symbol", outcome |-> "started"]
    /\ pm' = PositionManager(STARTING_CAPITAL)
    /\ UNCHANGED <<lossToday, strategy, market>>

\* the head of the loop over the groups: reset, fresh Strategy, the group's rows
GroupsStartDay ==
    /\ drv.mode = "groups"
    /\ drv.pc = "days"
    /\ drv.group < Len(drv.keys)
    /\ pm' = reset_daily_limits(pm)
    /\ lossToday' = FALSE
    /\ strategy' = (ReplaySymbol :> OpeningRangeBreakout)
    /\ drv' = [drv EXCEPT !.pc = "bars", !.group = @ + 1, !.idx = 0,
                          !.day_df = GroupOf(market.df, drv.keys[drv.group + 1])]
    /\ last' = [op |-> "reset_daily_limits"]
    /\ UNCHANGED market

\* one row of the group: steps 1 to 3
GroupsBar ==
    /\ drv.mode = "groups"
    /\ drv.pc = "bars"
    /\ drv.idx < Len(drv.day_df)
    /\ \E row \in {drv.day_df[drv.idx + 1]} :
       \E st \in {backtest_range(strategy[ReplaySymbol],
                                 SubSeq(drv.day_df, 1, drv.idx + 1))} :
       \E entry \in {backtest_entry(pm, st, drv.open_position, row)} :
       \E r \in {IF entry.raised # "" THEN entry
                 ELSE backtest_exit(entry.pm, st, entry.id, row)} :
          /\ pm' = r.pm
          /\ lossToday' = (lossToday \/ ClosedAtLoss(pm, r.pm))
          /\ strategy' = (ReplaySymbol :> st)
          /\ drv' = [drv EXCEPT !.open_position = r.id,
                                !.idx = @ + 1,
                                !.pc = IF r.raised = "" THEN "bars" ELSE "crashed",
                                !.seen = Append(@, [time |-> row.time,
                                                    pass |-> drv.group])]
          /\ last' = [op |-> "backtest_bar", raised |-> r.raised]
    /\ UNCHANGED market

\* after the group's last row: close what is open at the last close
GroupsEndDay ==
    /\ drv.mode = "groups"
    /\ drv.pc = "bars"
    /\ drv.idx = Len(drv.day_df)
    /\ \E r \in {IF drv.open_position = 0
                 THEN [pm |-> pm, raised |-> ""]
                 ELSE close_trade_kw(pm, drv.open_position,
                                     LastBar(drv.day_df).close, "End of day",
                                     LastBar(drv.day_df).time)} :
          /\ pm' = r.pm
          /\ lossToday' = (lossToday \/ ClosedAtLoss(pm, r.pm))
          /\ drv' = IF r.raised = ""
                    THEN [drv EXCEPT !.pc = "days", !.open_position = 0]
                    ELSE [drv EXCEPT !.pc = "crashed"]
          /\ last' = [op |-> "end_of_day", raised |-> r.raised]
    /\ UNCHANGED <<strategy, market>>

\* no group is left: the summary is returned
GroupsFinish ==
    /\ drv.mode = "groups"
    /\ drv.pc = "days"
    /\ drv.group = Len(drv.keys)
    /\ drv' = [drv EXCEPT !.pc = "done"]
    /\ last' = [op |-> "backtest_symbol", outcome |-> "summary"]
    /\ UNCHANGED <<pm, lossToday, strategy, market>>

NextGroups ==
    \/ GroupsStart
    \/ GroupsStartDay
    \/ GroupsBar
    \/ GroupsEndDay
    \/ GroupsFinish

SpecGroups == InitGroups /\ [][NextGroups]_vars

\* C31: two rows of the frame that have the same New York calendar date are
\* processed in the same pass of the loop over the trading dates (one reset,
\* one Strategy, one end-of-day close), whatever their UTC dates are.
C31_GroupedByLocalDate ==
    \A i, j \in 1..Len(drv.seen) :
        NewYorkDate(drv.seen[i].time) = NewYorkDate(drv.seen[j].time)
            => drv.seen[i].pass = drv.seen[j].pass

\* what the grouping does keep: rows are in one pass exactly when their UTC
\* dates are the same
C31_GroupedByUtcDate ==
    \A i, j \in 1..Len(drv.seen) :
        (trading_date(drv.seen[i].time) = trading_date(drv.seen[j].time))
            <=> (drv.seen[i].pass = drv.seen[j].pass)

\* rows of two UTC dates and one New York date have been processed
C31_EveningBarSeen ==
    \E i, j \in 1..Len(drv.seen) :
        /\ NewYorkDate(drv.seen[i].time) = NewYorkDate(drv.seen[j].time)
        /\ trading_date(drv.seen[i].time) # trading_date(drv.seen[j].time)

----------------------------------------------------------------------------
(* trader.py: execute_signal against the broker account *)

MaxOrders == 3      \* orders submitted to the broker over a run

TraderSymbols == {"AAPL", "MSFT"}
Signals == {"BUY", "SELL", "HOLD"}
\* shares a notional order of 25 USD fills at a price of 100
FillQty == <<1, 4>>

\* get_position_qty: float(pos.qty) when trading_client.get_open_position
\* answers; 0.0 when it raises, which it does when the account holds no
\* position in symbol and when the request itself fails
get_position_qty(positions, symbol, lookup_fails) ==
    IF lookup_fails \/ positions[symbol] = R(0) THEN R(0) ELSE positions[symbol]

\* execute_signal: the action it reports and the side of the order it places
\* ("none" when it places no order)
execute_signal(positions, symbol, signal, lookup_fails) ==
    LET qty == get_position_qty(positions, symbol, lookup_fails) IN
    IF signal = "BUY"
    THEN IF RLt(R(0), qty)
         THEN [action |-> "SKIP", side |-> "none"]
         ELSE [action |-> "BUY", side |-> "BUY"]
    ELSE IF signal = "SELL"
    THEN IF RLe(qty, R(0))
         THEN [action |-> "SKIP", side |-> "none"]
         ELSE [action |-> "SELL", side |-> "SELL"]
    ELSE [action |-> "SKIP", side |-> "none"]

\* The account: market.positions is what the broker holds per symbol,
\* market.orders the orders it has accepted (history); last keeps the call:
\* its arguments, whether the position lookup answered, what the account held
\* in the symbol when the call was made, and what the call did.
InitTrader ==
    /\ pm = PositionManager(STARTING_CAPITAL)
    /\ lossToday = FALSE
    /\ strategy = <<>>
    /\ last = NoCall
    /\ drv = [mode |-> "trader"]
    /\ market = [mode |-> "trader",
                 positions |-> [s \in TraderSymbols |-> R(0)],
                 orders |-> <<>>]

\* one call of execute_signal. trading_client.submit_order either accepts the
\* order, which the broker then fills, or raises, and the exception leaves
\* execute_signal.
ExecuteSignal ==
    /\ drv.mode = "trader"
    /\ Len(market.orders) < MaxOrders
    /\ \E symbol \in TraderSymbols, signal \in Signals :
       \E lookup_fails, submit_fails \in BOOLEAN :
       \E r \in {execute_signal(market.positions, symbol, signal, lookup_fails)} :
          /\ market' =
                IF r.side = "none" \/ submit_fails
                THEN market
                ELSE [market EXCEPT
                        !.orders = Append(@, [symbol |-> symbol, side |-> r.side]),
                        !.positions[symbol] =
                            IF r.side = "BUY" THEN RAdd(@, FillQty)
                            ELSE RSub(@, FillQty)]
          /\ last' = [op |-> "execute_signal", symbol |-> symbol, signal |-> signal,
                      lookup |-> IF lookup_fails THEN "failed" ELSE "answered",
                      held |-> market.positions[symbol],
                      action |-> IF r.side # "none" /\ submit_fails
                                 THEN "raised" ELSE r.action,
                      submitted |-> IF submit_fails THEN "none" ELSE r.side]
    /\ UNCHANGED <<pm, lossToday, strategy, drv>>

NextTrader == ExecuteSignal

SpecTrader == InitTrader /\ [][NextTrader]_vars

\* what a call of execute_signal may submit, given what the account holds
OrderFitsAccount ==
    /\ last.submitted = "BUY" => last.held = R(0)
    /\ last.submitted = "SELL" => RLt(R(0), last.held)
    /\ last.signal = "HOLD" => last.submitted = "none"

\* C40: execute_signal submits no BUY order for a symbol the account holds a
\* position in, no SELL order for a symbol it holds none in, and no order for
\* a HOLD signal, whether or not the broker's position lookup answers.
C40_OrderFitsAccount ==
    last.op = "execute_signal" => OrderFitsAccount

\* what holds: the calls whose position lookup answered, and every SELL and
\* HOLD call
C40_WhenLookupAnswers ==
    (last.op = "execute_signal" /\ (last.lookup = "answered" \/ last.signal # "BUY"))
        => OrderFitsAccount

\* a SELL call whose lookup failed while the position was held: skipped
C40_SellSkipped ==
    /\ last.op = "execute_signal"
    /\ last.signal = "SELL"
    /\ last.lookup = "failed"
    /\ RLt(R(0), last.held)
    /\ last.action = "SKIP"
====
